---------------------------- MODULE Spec2Model ----------------------------
(***************************************************************************)
(* Model of the trading-signal core of the repository:                     *)
(*   app/services/signal_service.py  (SupportResistanceCalculator,         *)
(*                                    SignalGenerator, RiskManager)        *)
(*   app/services/ml_service.py      (PredictionEngine)                    *)
(*   app/ml/feature_engineering.py   (TechnicalIndicators)                 *)
(*                                                                         *)
(* Number representation.  Python floats are modelled by exact or          *)
(* fixed-point arithmetic on integers:                                     *)
(*   - a bar's prices are integers in cents (1000 is 10.00);               *)
(*   - a price level or target is an exact rational [n, d] over cents;     *)
(*   - a strength-like quantity is an integer in units of 1/ONE;           *)
(*   - an indicator value (RSI, MACD, band) is fixed point, see each.      *)
(* An optional value (Python None) is the empty sequence, a present value  *)
(* v the one-element sequence <<v>>.                                       *)
(***************************************************************************)
EXTENDS Integers, Sequences, FiniteSets, TLC

VARIABLES
    market_data,      \* the stored series, ascending by timestamp
    request,          \* the endpoint called and the order the series is handed over in
    ml_prediction,    \* outcome of PredictionEngine.generate_prediction, or the cached one
    final_signal,     \* outcome of SignalGenerator.generate_signals
    filtered_signal,  \* outcome of RiskManager.apply_risk_filters
    sr_response,      \* outcome of calculate_support_resistance called on its own
    levels,           \* a list of levels handed to _cluster_levels
    clustered,        \* what _cluster_levels made of it, and of its own output
    vote_totals,      \* post-boost vote_totals handed to the decision rule
    decision,         \* what the decision rule made of them
    model_performance,  \* ModelManager.model_performance, shared with the PredictionEngine
    update_log,       \* per (symbol, model): the update_model_performance calls made, in order
    trainings,        \* number of train_models runs so far
    performance_stats,  \* the answer of get_model_performance_stats, while it is the latest request
    feed,             \* which stream of (actual, predicted) prices the callers report
    symbol_ref,       \* the dict model_performance[symbol] is bound to (0: no such key)
    dicts,            \* per symbol-level dict: the record bound to model_name (0: no such key)
    records,          \* per record object: its 'predictions' and 'accuracy_scores' lists
    threads,          \* per caller of update_model_performance: statement reached, perf_data
    overlapped,       \* whether a call began while the other was under way
    indicators,       \* per indicator of TechnicalIndicators: what it returned for the series
    indicator_votes   \* a dict of indicator votes handed to _generate_final_signal

signal_vars == <<market_data, request, ml_prediction, final_signal, filtered_signal,
                 sr_response, levels, clustered, vote_totals, decision>>

store_vars == <<model_performance, update_log, trainings, performance_stats, feed>>

race_vars == <<symbol_ref, dicts, records, threads, overlapped>>

indicator_vars == <<indicators>>

fusion_vars == <<indicator_votes>>

\* the variables the signal endpoints leave alone
rest_of_signal == <<store_vars, race_vars, indicator_vars, fusion_vars>>

\* the variables the endpoints of routers/predictions.py leave alone in
\* SpecPerformance
rest_of_store == <<race_vars, indicator_vars, fusion_vars>>

\* the variables the callers of SpecInterleaved leave alone
rest_of_race == <<signal_vars, store_vars, indicator_vars, fusion_vars>>

vars == <<signal_vars, store_vars, race_vars, indicator_vars, fusion_vars>>

-----------------------------------------------------------------------------
(* Bounds of the model.                                                    *)

\* longest series drawn
MaxBars == 60

\* longest list of levels handed to _cluster_levels on its own
MaxLevels == 3

-----------------------------------------------------------------------------
(* Arithmetic helpers.                                                     *)

Max(a, b) == IF a >= b THEN a ELSE b
Min(a, b) == IF a <= b THEN a ELSE b
Abs(a) == IF a >= 0 THEN a ELSE 0 - a

\* sum(s), by halves (the evaluator's stack is shallow)
RECURSIVE SumSeq(_)
SumSeq(s) ==
    IF Len(s) = 0 THEN 0
    ELSE IF Len(s) = 1 THEN s[1]
    ELSE LET m == Len(s) \div 2
         IN  SumSeq(SubSeq(s, 1, m)) + SumSeq(SubSeq(s, m + 1, Len(s)))

RECURSIVE Gcd(_, _)
Gcd(a, b) == IF b = 0 THEN a ELSE Gcd(b, a % b)

\* the last k elements of s (Python s[-k:] with 0 < k <= len(s))
LastN(s, k) == SubSeq(s, Len(s) - k + 1, Len(s))

\* Python s[:k]
FirstN(s, k) == SubSeq(s, 1, Min(k, Len(s)))

Reverse(s) == [i \in 1..Len(s) |-> s[Len(s) + 1 - i]]

\* floor(sqrt(x)) by bisection on [lo, hi)
RECURSIVE IsqrtIn(_, _, _)
IsqrtIn(x, lo, hi) ==
    IF hi - lo <= 1 THEN lo
    ELSE LET mid == (lo + hi) \div 2
         IN  IF mid * mid <= x THEN IsqrtIn(x, mid, hi) ELSE IsqrtIn(x, lo, mid)

Isqrt(x) == IsqrtIn(x, 0, 46341)

\* <<q, r>> with c * num = q * den + r and 0 <= r < den, for c >= 0 and
\* 0 <= num < den, computed by halving c so that no intermediate value
\* exceeds 3 * den
RECURSIVE DivMod(_, _, _)
DivMod(c, num, den) ==
    IF c = 0 THEN <<0, 0>>
    ELSE LET p == DivMod(c \div 2, num, den)
             t == 2 * p[2] + (c % 2) * num
         IN  <<2 * p[1] + t \div den, t % den>>

\* floor(scale * num / den) for scale >= 0, num >= 0, den > 0
MulDiv(scale, num, den) ==
    (num \div den) * scale + DivMod(scale, num % den, den)[1]

\* Python round(): to the nearest integer, ties to the even one
RoundHalfEven(num, den) ==
    LET q == num \div den
        r == num % den
    IN  IF 2 * r < den THEN q
        ELSE IF 2 * r > den THEN q + 1
        ELSE IF q % 2 = 0 THEN q ELSE q + 1

\* round(whole + r / den) for 0 <= r < den
RoundMixed(whole, r, den) ==
    IF 2 * r < den THEN whole
    ELSE IF 2 * r > den THEN whole + 1
    ELSE IF whole % 2 = 0 THEN whole ELSE whole + 1

-----------------------------------------------------------------------------
(* Exact rationals [n, d], d > 0, in lowest terms.                         *)

Q(n, d) == LET g == Gcd(Abs(n), d) IN [n |-> n \div g, d |-> d \div g]
QInt(n) == [n |-> n, d |-> 1]
QLess(a, b) == a.n * b.d < b.n * a.d
QLeq(a, b) == a.n * b.d <= b.n * a.d
QAdd(a, b) == Q(a.n * b.d + b.n * a.d, a.d * b.d)

RECURSIVE QSum(_)
QSum(s) ==
    IF Len(s) = 0 THEN QInt(0)
    ELSE IF Len(s) = 1 THEN s[1]
    ELSE LET m == Len(s) \div 2
         IN  QAdd(QSum(SubSeq(s, 1, m)), QSum(SubSeq(s, m + 1, Len(s))))

\* sum(s) / len(s)
QMean(s) == LET t == QSum(s) IN Q(t.n, t.d * Len(s))

-----------------------------------------------------------------------------
(* SupportResistanceCalculator.                                            *)

\* default of find_pivot_points(window)
pivot_window == 5

\* default of calculate_support_resistance(lookback_periods)
lookback_default == 50

\* _cluster_levels(tolerance=0.02), in hundredths
tolerance_pct == 2

\* windows of the two moving-average levels
ma_short_window == 20
ma_long_window == 50

\* the [:3] of the final selection
max_levels_kept == 3

\* highs[i] >= every neighbour within pivot_window on both sides (i 1-based)
IsPivotHigh(highs, i) ==
    /\ \A j \in 1..pivot_window : highs[i] >= highs[i - j]
    /\ \A j \in 1..pivot_window : highs[i] >= highs[i + j]

\* lows[i] <= every neighbour within pivot_window on both sides
IsPivotLow(lows, i) ==
    /\ \A j \in 1..pivot_window : lows[i] <= lows[i - j]
    /\ \A j \in 1..pivot_window : lows[i] <= lows[i + j]

\* range(window, len(highs) - window), 1-based, in index order
PivotRange(n) ==
    [k \in 1..Max(0, n - 2 * pivot_window) |-> k + pivot_window]

find_pivot_points(highs, lows) ==
    LET idx == PivotRange(Len(highs))
        hi == SelectSeq(idx, LAMBDA i : IsPivotHigh(highs, i))
        lo == SelectSeq(idx, LAMBDA i : IsPivotLow(lows, i))
    IN  [pivot_highs |-> [k \in 1..Len(hi) |-> highs[hi[k]]],
         pivot_lows  |-> [k \in 1..Len(lo) |-> lows[lo[k]]]]

\* abs(level - last) / last <= tolerance, for rationals with last > 0
WithinTolerance(level, last) ==
    Abs(level.n * last.d - last.n * level.d) * 100
        <= tolerance_pct * last.n * level.d

\* a variant that compares each level with the first level of the current
\* cluster instead of the last one
_cluster_levels_anchored(lv) ==
    IF lv = <<>> THEN <<>>
    ELSE LET sorted == SortSeq(lv, QLess)
             n == Len(sorted)
             anchor[i \in 1..n] ==
                 IF i = 1 THEN 1
                 ELSE IF WithinTolerance(sorted[i], sorted[anchor[i - 1]])
                      THEN anchor[i - 1] ELSE i
             starts == SelectSeq([i \in 1..n |-> i], LAMBDA i : anchor[i] = i)
             EndOf(k) == IF k = Len(starts) THEN n ELSE starts[k + 1] - 1
         IN  [k \in 1..Len(starts) |-> QMean(SubSeq(sorted, starts[k], EndOf(k)))]

\* _cluster_levels(levels, tolerance=0.02): levels is a sequence of rationals.
\* The loop compares each level with current_cluster[-1], which is always the
\* level just before it in sorted order; so a new cluster starts exactly at
\* the first level and at each level not within tolerance of its predecessor,
\* and each cluster is replaced by sum(cluster) / len(cluster).
_cluster_levels(lv) ==
    IF lv = <<>> THEN <<>>
    ELSE LET sorted == SortSeq(lv, QLess)
             n == Len(sorted)
             starts == SelectSeq([i \in 1..n |-> i],
                           LAMBDA i : i = 1 \/ ~WithinTolerance(sorted[i], sorted[i - 1]))
             EndOf(k) == IF k = Len(starts) THEN n ELSE starts[k + 1] - 1
         IN  [k \in 1..Len(starts) |-> QMean(SubSeq(sorted, starts[k], EndOf(k)))]

\* closes.rolling(w).mean().iloc[-1] if len(closes) >= w else current_price
MovingAverageLevel(closes, w) ==
    IF Len(closes) >= w THEN Q(SumSeq(LastN(closes, w)), w)
    ELSE QInt(closes[Len(closes)])

\* the candidate lists before the final sort and filter (lines 57-75)
CandidateLevels(md, lookback_periods) ==
    LET lb == IF Len(md) < lookback_periods THEN Len(md) ELSE lookback_periods
        recent_data == LastN(md, lb)
        highs == [i \in 1..lb |-> recent_data[i].high_price]
        lows == [i \in 1..lb |-> recent_data[i].low_price]
        closes == [i \in 1..lb |-> recent_data[i].close_price]
        piv == find_pivot_points(highs, lows)
        res0 == _cluster_levels([i \in 1..Len(piv.pivot_highs) |-> QInt(piv.pivot_highs[i])])
        sup0 == _cluster_levels([i \in 1..Len(piv.pivot_lows) |-> QInt(piv.pivot_lows[i])])
        current_price == QInt(closes[lb])
        ma_20 == MovingAverageLevel(closes, ma_short_window)
        ma_50 == MovingAverageLevel(closes, ma_long_window)
        res1 == IF QLess(current_price, ma_20) THEN Append(res0, ma_20) ELSE res0
        sup1 == IF QLess(current_price, ma_20) THEN sup0 ELSE Append(sup0, ma_20)
        res2 == IF QLess(current_price, ma_50) THEN Append(res1, ma_50) ELSE res1
        sup2 == IF QLess(current_price, ma_50) THEN sup1 ELSE Append(sup1, ma_50)
    IN  [support |-> sup2, resistance |-> res2, current_price |-> closes[lb]]

QGreater(a, b) == QLess(b, a)

\* a variant that does not filter the resistances against current_price
SelectResistance_unfiltered(cands, cp) ==
    FirstN(SortSeq(cands, QLess), max_levels_kept)

\* lines 78-79: sort, filter against current_price, keep the first three
SelectResistance(cands, cp) ==
    FirstN(SortSeq(SelectSeq(cands, LAMBDA l : QLess(QInt(cp), l)), QLess),
           max_levels_kept)

\* a variant that sorts the supports ascending, as the resistances are
SelectSupport_ascending(cands, cp) ==
    FirstN(SortSeq(SelectSeq(cands, LAMBDA l : QLess(l, QInt(cp))), QLess),
           max_levels_kept)

SelectSupport(cands, cp) ==
    FirstN(SortSeq(SelectSeq(cands, LAMBDA l : QLess(l, QInt(cp))), QGreater),
           max_levels_kept)

\* calculate_support_resistance: an empty series raises at closes.iloc[-1]
\* and the except branch returns empty lists with current_price 0
calculate_support_resistance(md, lookback_periods) ==
    IF Len(md) = 0
    THEN [support_levels |-> <<>>, resistance_levels |-> <<>>, current_price |-> 0]
    ELSE LET c == CandidateLevels(md, lookback_periods)
         IN  [support_levels |-> SelectSupport(c.support, c.current_price),
              resistance_levels |-> SelectResistance(c.resistance, c.current_price),
              current_price |-> c.current_price]

-----------------------------------------------------------------------------
(* The series drawn: a close trend, a wick pattern, a volume pattern and a *)
(* length.  Prices are positive, timestamps 1..n ascending.                *)

Trends == {"flat", "up", "down", "crash", "jump", "wave", "bump"}
Wicks == {"plain", "zig"}
Lens == {0, 5, 19, 20, 30, 50, MaxBars}

Wave(i) == LET k == i % 8 IN IF k <= 2 THEN 50 * k ELSE IF k <= 6 THEN 50 * (4 - k) ELSE 0 - 50

CloseAt(trend, i, n) ==
    CASE trend = "flat"  -> 1000
      [] trend = "up"    -> 1000 + 6 * i
      [] trend = "down"  -> 1400 - 6 * i
      [] trend = "crash" -> IF i > n - 3 THEN 1000 - 40 * (i - (n - 3)) ELSE 1000
      [] trend = "jump"  -> IF i > n - 3 THEN 1000 + 40 * (i - (n - 3)) ELSE 1000
      [] trend = "wave"  -> 1000 + Wave(i)
      \* flat but for one close, which puts the 20-bar average a tenth of a
      \* cent above the current price
      [] trend = "bump"  -> IF i = n - 6 THEN 1002 ELSE 1000

HighAt(wick, c, i) ==
    IF wick = "zig" /\ i % 6 = 3 THEN c + 20 + 25 * ((i \div 6) % 4) ELSE c + 5

LowAt(wick, c, i) ==
    IF wick = "zig" /\ i % 6 = 0 THEN c - 20 - 25 * ((i \div 6) % 4) ELSE c - 5

BarAt(trend, wick, spike, i, n) ==
    LET c == CloseAt(trend, i, n)
    IN  [timestamp |-> i,
         high_price |-> HighAt(wick, c, i),
         low_price |-> LowAt(wick, c, i),
         close_price |-> c,
         volume |-> IF spike /\ i = n THEN 3000 ELSE 1000]

SeriesOf(trend, wick, spike, n) ==
    [i \in 1..n |-> BarAt(trend, wick, spike, i, n)]

-----------------------------------------------------------------------------
(* Fixed point.                                                            *)

\* 1.0 as a strength, a total or a confidence-like factor
ONE == 2 * 1000 * 1000

\* an indicator strength is kept to a multiple of this (1/20000 of 1.0), so
\* that the products with the weights, given in hundredths, are exact
StrengthQuantum == 10 * 10

\* min(1.0, num / den) as a strength, for num >= 0, den > 0
StrengthOf(num, den) ==
    IF num >= den THEN ONE
    ELSE MulDiv(ONE \div StrengthQuantum, num, den) * StrengthQuantum

\* indicator prices (moving averages, bands, MACD) are in 1/100 of a cent
Fine == 10 * 10

-----------------------------------------------------------------------------
(* TechnicalIndicators (app/ml/feature_engineering.py), each evaluated at  *)
(* the last position of the series, which is the only one the signal       *)
(* generator reads.                                                        *)

rsi_window == 14
macd_fast == 12
macd_slow == 26
macd_signal_span == 9
bb_window == 20
bb_num_std == 2

\* sma(data, window).iloc[-1]: undefined (<<>>) until the window is filled
sma(data, window) ==
    IF Len(data) < window THEN <<>>
    ELSE <<MulDiv(Fine, SumSeq(LastN(data, window)), window)>>

\* delta = data.diff(), with the undefined first delta replaced by 0 by
\* delta.where(...): gains and losses of the last rsi_window positions
GainSum(data) ==
    SumSeq([k \in 1..rsi_window |->
        LET i == Len(data) - rsi_window + k
        IN  IF i >= 2 /\ data[i] > data[i - 1] THEN data[i] - data[i - 1] ELSE 0])

LossSum(data) ==
    SumSeq([k \in 1..rsi_window |->
        LET i == Len(data) - rsi_window + k
        IN  IF i >= 2 /\ data[i] < data[i - 1] THEN data[i - 1] - data[i] ELSE 0])

\* rsi(data).iloc[-1] as an exact rational: 100 - 100 / (1 + gain / loss).
\* gain / 0 with gain > 0 is float infinity and gives 100; 0 / 0 is NaN (<<>>).
rsi(data) ==
    IF Len(data) < rsi_window THEN <<>>
    ELSE LET g == GainSum(data)
             l == LossSum(data)
         IN  IF g = 0 /\ l = 0 THEN <<>>
             ELSE <<Q(100 * g, g + l)>>

\* weights of data.ewm(span=window).mean() (adjust=True): (1 - alpha)^i with
\* alpha = 2 / (window + 1), as integers out of EmaUnit
EmaUnit == 10 * 1000

\* the weights of lags 0..k, as a sequence (lag i at position i + 1)
RECURSIVE EmaWeightsUpTo(_, _)
EmaWeightsUpTo(window, k) ==
    IF k = 0 THEN <<EmaUnit>>
    ELSE LET w == EmaWeightsUpTo(window, k - 1)
         IN  Append(w, (w[k] * (window - 1)) \div (window + 1))

EmaWeights(window) == EmaWeightsUpTo(window, MaxBars + 1)

\* ema(data, window) at position t: the weighted mean of data[1..t]
EmaAt(data, W, t) ==
    LET num == SumSeq([i \in 1..t |-> W[t - i + 1] * data[i]])
        den == SumSeq(SubSeq(W, 1, t))
    IN  num \div den

\* the same for non-negative data in cents, with the result in Fine
EmaFineAt(data, W, t) ==
    LET num == SumSeq([i \in 1..t |-> W[t - i + 1] * data[i]])
        den == SumSeq(SubSeq(W, 1, t))
    IN  MulDiv(Fine, num, den)

\* the three weight tables of macd(fast=12, slow=26, signal=9)
fast_weights == EmaWeights(macd_fast)
slow_weights == EmaWeights(macd_slow)
signal_weights_ema == EmaWeights(macd_signal_span)

\* macd(data): the macd line and the signal line at the last position, in Fine
macd(data) ==
    LET n == Len(data)
        macd_line == [t \in 1..n |-> EmaFineAt(data, fast_weights, t)
                                     - EmaFineAt(data, slow_weights, t)]
    IN  [macd |-> macd_line[n], signal |-> EmaAt(macd_line, signal_weights_ema, n)]

\* 20 * sum(x^2) - sum(x)^2 over the last w values: w^2 times their
\* population variance
SpreadOf(data, w) ==
    LET xs == LastN(data, w)
        sq == [i \in 1..w |-> xs[i] * xs[i]]
    IN  w * SumSeq(sq) - SumSeq(xs) * SumSeq(xs)

\* data.rolling(window).std() (sample standard deviation), in Fine
RollingStd(data, window) ==
    Isqrt(MulDiv(Fine * Fine, SpreadOf(data, window), window * (window - 1)))

\* bollinger_bands(data): upper and lower band at the last position
bollinger_bands(data) ==
    IF Len(data) < bb_window THEN [upper |-> <<>>, lower |-> <<>>]
    ELSE LET mid == sma(data, bb_window)[1]
             std == RollingStd(data, bb_window)
         IN  [upper |-> <<mid + bb_num_std * std>>,
              lower |-> <<mid - bb_num_std * std>>]

-----------------------------------------------------------------------------
(* SignalGenerator.                                                        *)

\* generate_signals: minimum number of bars
min_bars == 20

\* df.sort_values('timestamp').reset_index(drop=True)
SortByTimestamp(md) == SortSeq(md, LAMBDA a, b : a.timestamp < b.timestamp)

ClosesOf(df) == [i \in 1..Len(df) |-> df[i].close_price]
VolumesOf(df) == [i \in 1..Len(df) |-> df[i].volume]

\* lines 177-189
RsiSignals(closes) ==
    LET r == rsi(closes)
        current_rsi == IF r = <<>> THEN QInt(50) ELSE r[1]
    IN  IF current_rsi.n > 70 * current_rsi.d
        THEN [rsi_signal |-> "SELL",
              rsi_strength |-> StrengthOf(current_rsi.n - 70 * current_rsi.d,
                                          30 * current_rsi.d)]
        ELSE IF current_rsi.n < 30 * current_rsi.d
        THEN [rsi_signal |-> "BUY",
              rsi_strength |-> StrengthOf(30 * current_rsi.d - current_rsi.n,
                                          30 * current_rsi.d)]
        ELSE [rsi_signal |-> "HOLD", rsi_strength |-> 0]

\* a variant that votes HOLD when the two lines are equal
MacdSignals_hold_on_equal(closes) ==
    LET m == macd(closes)
        strength == IF m.signal # 0
                    THEN StrengthOf(Abs(m.macd - m.signal), Abs(m.signal))
                    ELSE ONE \div 2
    IN  IF m.macd > m.signal
        THEN [macd_signal |-> "BUY", macd_strength |-> strength]
        ELSE IF m.macd < m.signal
        THEN [macd_signal |-> "SELL", macd_strength |-> strength]
        ELSE [macd_signal |-> "HOLD", macd_strength |-> 0]

\* lines 191-201
MacdSignals(closes) ==
    LET m == macd(closes)
        macd_line == m.macd
        signal_line == m.signal
        strength == IF signal_line # 0
                    THEN StrengthOf(Abs(macd_line - signal_line), Abs(signal_line))
                    ELSE ONE \div 2
    IN  IF macd_line > signal_line
        THEN [macd_signal |-> "BUY", macd_strength |-> strength]
        ELSE [macd_signal |-> "SELL", macd_strength |-> strength]

\* a variant that compares with the 20-bar average where the 50-bar
\* average is undefined
MaSignals_short_average(closes) ==
    LET s20 == sma(closes, ma_short_window)
        s50 == IF sma(closes, ma_long_window) = <<>> THEN s20
               ELSE sma(closes, ma_long_window)
        current_price == closes[Len(closes)] * Fine
    IN  IF s20 = <<>> \/ s50 = <<>> THEN <<>>
        ELSE LET sma_20 == s20[1]
                 sma_50 == s50[1]
             IN  IF sma_20 > sma_50 /\ current_price > sma_20
                 THEN [ma_signal |-> "BUY",
                       ma_strength |-> StrengthOf(current_price - sma_20, sma_20)]
                 ELSE IF sma_20 < sma_50 /\ current_price < sma_20
                 THEN [ma_signal |-> "SELL",
                       ma_strength |-> StrengthOf(sma_20 - current_price, sma_20)]
                 ELSE [ma_signal |-> "HOLD", ma_strength |-> 0]

\* lines 203-217: no key at all unless both averages are defined
MaSignals(closes) ==
    LET s20 == sma(closes, ma_short_window)
        s50 == sma(closes, ma_long_window)
        current_price == closes[Len(closes)] * Fine
    IN  IF s20 = <<>> \/ s50 = <<>> THEN <<>>
        ELSE LET sma_20 == s20[1]
                 sma_50 == s50[1]
             IN  IF sma_20 > sma_50 /\ current_price > sma_20
                 THEN [ma_signal |-> "BUY",
                       ma_strength |-> StrengthOf(current_price - sma_20, sma_20)]
                 ELSE IF sma_20 < sma_50 /\ current_price < sma_20
                 THEN [ma_signal |-> "SELL",
                       ma_strength |-> StrengthOf(sma_20 - current_price, sma_20)]
                 ELSE [ma_signal |-> "HOLD", ma_strength |-> 0]

\* lines 219-233
BbSignals(closes) ==
    LET bb == bollinger_bands(closes)
        current_price == closes[Len(closes)] * Fine
    IN  IF bb.upper = <<>> \/ bb.lower = <<>> THEN <<>>
        ELSE LET upper_band == bb.upper[1]
                 lower_band == bb.lower[1]
             IN  IF current_price > upper_band
                 THEN [bb_signal |-> "SELL",
                       bb_strength |-> StrengthOf(current_price - upper_band, upper_band)]
                 ELSE IF current_price < lower_band
                 THEN [bb_signal |-> "BUY",
                       bb_strength |-> StrengthOf(lower_band - current_price, lower_band)]
                 ELSE [bb_signal |-> "HOLD", bb_strength |-> 0]

\* lines 235-244: current_volume > volume_sma * 1.5, with
\* volume_sma = sum of the last 20 volumes / 20 (undefined, and the
\* comparison false, before 20 bars)
VolumeSignals(volumes) ==
    LET n == Len(volumes)
        total == SumSeq(LastN(volumes, ma_short_window))
        current_volume == volumes[n]
    IN  IF n >= ma_short_window /\ 2 * ma_short_window * current_volume > 3 * total
        THEN [volume_confirmation |-> TRUE,
              volume_strength |->
                  IF total = 0 THEN ONE
                  ELSE StrengthOf(ma_short_window * current_volume - total, total)]
        ELSE [volume_confirmation |-> FALSE, volume_strength |-> 0]

_calculate_technical_signals(df) ==
    LET closes == ClosesOf(df)
    IN  RsiSignals(closes) @@ MacdSignals(closes) @@ MaSignals(closes)
            @@ BbSignals(closes) @@ VolumeSignals(VolumesOf(df))

\* a variant whose thresholds are inclusive: a move of 2% is a vote
_incorporate_ml_signals_inclusive(df, pred) ==
    LET predicted_price == pred.predicted_price
        current_price == df[Len(df)].close_price
        confidence == pred.confidence_score
        move == predicted_price - current_price
        strength == StrengthOf(confidence * Abs(move), 100 * current_price)
    IN  IF predicted_price > 0 /\ confidence * 10 > 5 * 1000
        THEN (IF 100 * move >= 2 * current_price
              THEN [ml_signal |-> "BUY", ml_strength |-> strength]
              ELSE IF 100 * move <= 0 - 2 * current_price
              THEN [ml_signal |-> "SELL", ml_strength |-> strength]
              ELSE [ml_signal |-> "HOLD", ml_strength |-> 0])
             @@ [ml_confidence |-> confidence, ml_predicted_price |-> predicted_price]
        ELSE <<>>

\* a variant that lets a prediction of any confidence vote
_incorporate_ml_signals_any_confidence(df, pred) ==
    LET predicted_price == pred.predicted_price
        current_price == df[Len(df)].close_price
        confidence == pred.confidence_score
        move == predicted_price - current_price
        strength == StrengthOf(confidence * Abs(move), 100 * current_price)
    IN  IF predicted_price > 0
        THEN (IF 100 * move > 2 * current_price
              THEN [ml_signal |-> "BUY", ml_strength |-> strength]
              ELSE IF 100 * move < 0 - 2 * current_price
              THEN [ml_signal |-> "SELL", ml_strength |-> strength]
              ELSE [ml_signal |-> "HOLD", ml_strength |-> 0])
             @@ [ml_confidence |-> confidence, ml_predicted_price |-> predicted_price]
        ELSE <<>>

\* _incorporate_ml_signals: ml_prediction is [predicted_price (cents),
\* confidence_score (thousandths)]
_incorporate_ml_signals(df, pred) ==
    LET predicted_price == pred.predicted_price
        current_price == df[Len(df)].close_price
        confidence == pred.confidence_score
        move == predicted_price - current_price
        strength == StrengthOf(confidence * Abs(move), 100 * current_price)
    IN  IF predicted_price > 0 /\ confidence * 10 > 5 * 1000
        THEN (IF 100 * move > 2 * current_price
              THEN [ml_signal |-> "BUY", ml_strength |-> strength]
              ELSE IF 100 * move < 0 - 2 * current_price
              THEN [ml_signal |-> "SELL", ml_strength |-> strength]
              ELSE [ml_signal |-> "HOLD", ml_strength |-> 0])
             @@ [ml_confidence |-> confidence, ml_predicted_price |-> predicted_price]
        ELSE <<>>

\* signal_weights, in hundredths
signal_weights == [rsi |-> 20, macd |-> 25, ma |-> 20, bb |-> 15, ml |-> 20]

SignalKinds == <<"rsi", "macd", "ma", "bb", "ml">>

SignalKey(kind) ==
    CASE kind = "rsi" -> "rsi_signal" [] kind = "macd" -> "macd_signal"
      [] kind = "ma" -> "ma_signal" [] kind = "bb" -> "bb_signal"
      [] kind = "ml" -> "ml_signal"

StrengthKey(kind) ==
    CASE kind = "rsi" -> "rsi_strength" [] kind = "macd" -> "macd_strength"
      [] kind = "ma" -> "ma_strength" [] kind = "bb" -> "bb_strength"
      [] kind = "ml" -> "ml_strength"

\* a variant that adds every voting kind to the total of either side
SideTotal_every_vote(signals, side) ==
    SumSeq([k \in 1..Len(SignalKinds) |->
        LET kind == SignalKinds[k]
        IN  IF SignalKey(kind) \in DOMAIN signals /\ signals[SignalKey(kind)] # "HOLD"
            THEN (signal_weights[kind] * signals[StrengthKey(kind)]) \div 100
            ELSE 0])

\* weight * strength of the kinds that vote `side` (lines 304-320)
SideTotal(signals, side) ==
    SumSeq([k \in 1..Len(SignalKinds) |->
        LET kind == SignalKinds[k]
        IN  IF SignalKey(kind) \in DOMAIN signals /\ signals[SignalKey(kind)] = side
            THEN (signal_weights[kind] * signals[StrengthKey(kind)]) \div 100
            ELSE 0])

\* a variant that adds the whole volume_strength, not a tenth of it
BoostedTotals_whole_strength(signals) ==
    LET buy0 == SideTotal(signals, "BUY")
        sell0 == SideTotal(signals, "SELL")
        volume_boost == IF signals.volume_confirmation
                        THEN signals.volume_strength ELSE 0
    IN  IF buy0 > sell0
        THEN [buy |-> buy0 + volume_boost, sell |-> sell0]
        ELSE [buy |-> buy0, sell |-> sell0 + volume_boost]

\* total_buy_strength and total_sell_strength after the volume boost
\* (lines 318-328)
BoostedTotals(signals) ==
    LET buy0 == SideTotal(signals, "BUY")
        sell0 == SideTotal(signals, "SELL")
        volume_boost == IF signals.volume_confirmation
                        THEN signals.volume_strength \div 10 ELSE 0
    IN  IF buy0 > sell0
        THEN [buy |-> buy0 + volume_boost, sell |-> sell0]
        ELSE [buy |-> buy0, sell |-> sell0 + volume_boost]

\* the 0.3 floor
signal_floor == (3 * ONE) \div 10

\* a variant whose floor is inclusive
DetermineFinalSignal_inclusive(total_buy_strength, total_sell_strength) ==
    IF total_buy_strength > total_sell_strength /\ total_buy_strength >= signal_floor
    THEN [signal_type |-> "BUY", signal_strength |-> Min(ONE, total_buy_strength)]
    ELSE IF total_sell_strength > total_buy_strength /\ total_sell_strength >= signal_floor
    THEN [signal_type |-> "SELL", signal_strength |-> Min(ONE, total_sell_strength)]
    ELSE [signal_type |-> "HOLD", signal_strength |-> 0]

\* lines 330-339
DetermineFinalSignal(total_buy_strength, total_sell_strength) ==
    IF total_buy_strength > total_sell_strength /\ total_buy_strength > signal_floor
    THEN [signal_type |-> "BUY", signal_strength |-> Min(ONE, total_buy_strength)]
    ELSE IF total_sell_strength > total_buy_strength /\ total_sell_strength > signal_floor
    THEN [signal_type |-> "SELL", signal_strength |-> Min(ONE, total_sell_strength)]
    ELSE [signal_type |-> "HOLD", signal_strength |-> 0]

\* round(x, 3) of a strength-like quantity, as a multiple of ONE / 1000
Round3(x) == RoundHalfEven(x, ONE \div 1000) * (ONE \div 1000)

\* round(level, 2) of a rational price level, in cents
Round2(level) == RoundHalfEven(level.n, level.d)

\* lines 330-351: the signal type, and the strength as it is returned
\* (round(signal_strength, 3))
ReturnedDecision(total_buy_strength, total_sell_strength) ==
    LET final == DetermineFinalSignal(total_buy_strength, total_sell_strength)
    IN  [signal_type |-> final.signal_type,
         strength |-> Round3(final.signal_strength)]

\* round(current_price * (1 + (base + slope * strength) / 100), 2)
PctAbove(current_price, base, slope, strength) ==
    LET p == DivMod(current_price, base * ONE + slope * strength, 100 * ONE)
    IN  RoundMixed(current_price + p[1], p[2], 100 * ONE)

\* round(current_price * (1 - (base + slope * strength) / 100), 2)
PctBelow(current_price, base, slope, strength) ==
    LET p == DivMod(current_price, base * ONE + slope * strength, 100 * ONE)
    IN  IF p[2] = 0 THEN current_price - p[1]
        ELSE RoundMixed(current_price - p[1] - 1, 100 * ONE - p[2], 100 * ONE)

\* a variant that gives a HOLD decision the fallback targets of a BUY
_calculate_price_targets_for_hold(current_price, signal_type, sr_levels, strength) ==
    [price_target |-> <<PctAbove(current_price, 1, 4, strength)>>,
     stop_loss |-> <<PctBelow(current_price, 2, 3, strength)>>]

\* a variant that takes the last level of each list instead of the first
_calculate_price_targets_farthest(current_price, signal_type, sr_levels, strength) ==
    LET support_levels == sr_levels.support_levels
        resistance_levels == sr_levels.resistance_levels
    IN  IF signal_type = "HOLD" THEN [price_target |-> <<>>, stop_loss |-> <<>>]
        ELSE IF signal_type = "BUY"
        THEN [price_target |->
                  IF resistance_levels # <<>>
                  THEN <<Round2(resistance_levels[Len(resistance_levels)])>>
                  ELSE <<PctAbove(current_price, 1, 4, strength)>>,
              stop_loss |->
                  IF support_levels # <<>>
                  THEN <<Round2(support_levels[Len(support_levels)])>>
                  ELSE <<PctBelow(current_price, 2, 3, strength)>>]
        ELSE [price_target |->
                  IF support_levels # <<>>
                  THEN <<Round2(support_levels[Len(support_levels)])>>
                  ELSE <<PctBelow(current_price, 1, 4, strength)>>,
              stop_loss |->
                  IF resistance_levels # <<>>
                  THEN <<Round2(resistance_levels[Len(resistance_levels)])>>
                  ELSE <<PctAbove(current_price, 2, 3, strength)>>]

\* _calculate_price_targets: <<price_target, stop_loss>> as optional cents
_calculate_price_targets(current_price, signal_type, sr_levels, strength) ==
    LET support_levels == sr_levels.support_levels
        resistance_levels == sr_levels.resistance_levels
    IN  IF signal_type = "HOLD" THEN [price_target |-> <<>>, stop_loss |-> <<>>]
        ELSE IF signal_type = "BUY"
        THEN [price_target |->
                  IF resistance_levels # <<>> THEN <<Round2(resistance_levels[1])>>
                  ELSE <<PctAbove(current_price, 1, 4, strength)>>,
              stop_loss |->
                  IF support_levels # <<>> THEN <<Round2(support_levels[1])>>
                  ELSE <<PctBelow(current_price, 2, 3, strength)>>]
        ELSE [price_target |->
                  IF support_levels # <<>> THEN <<Round2(support_levels[1])>>
                  ELSE <<PctBelow(current_price, 1, 4, strength)>>,
              stop_loss |->
                  IF resistance_levels # <<>> THEN <<Round2(resistance_levels[1])>>
                  ELSE <<PctAbove(current_price, 2, 3, strength)>>]

Votes(signals, key, signal_type) ==
    key \in DOMAIN signals /\ signals[key] = signal_type

Clause(cond, text) == IF cond THEN <<text>> ELSE <<>>

\* _generate_reasoning: the text as its clauses, <<descriptor, type>> first.
\* The numbers formatted into the clauses are left out; the longest text the
\* clauses can make is under 500 characters, so [:500] cuts nothing.
_generate_reasoning(signals, signal_type, strength) ==
    LET reasons ==
            Clause(Votes(signals, "rsi_signal", signal_type),
                   IF signal_type = "BUY" THEN "RSI indicates oversold conditions"
                   ELSE "RSI indicates overbought conditions")
            \o Clause(Votes(signals, "macd_signal", signal_type),
                   IF signal_type = "BUY" THEN "MACD shows bullish momentum"
                   ELSE "MACD shows bearish momentum")
            \o Clause(Votes(signals, "ma_signal", signal_type),
                   "Moving averages support the trend")
            \o Clause(Votes(signals, "bb_signal", signal_type),
                   "Bollinger Bands indicate potential reversal")
            \o Clause(Votes(signals, "ml_signal", signal_type),
                   "ML model predicts favorable price movement")
            \o Clause(signals.volume_confirmation, "High volume confirms the signal")
        strength_desc == IF 10 * strength > 7 * ONE THEN "Strong"
                         ELSE IF 10 * strength > 4 * ONE THEN "Moderate"
                         ELSE "Weak"
    IN  <<strength_desc, signal_type>>
            \o (IF reasons = <<>> THEN <<"Mixed signals suggest holding position">>
                ELSE reasons)

\* _generate_final_signal.  Its except branch (lines 362-370) needs a failure
\* inside the body, which a non-empty df of numbers does not produce.
_generate_final_signal(signals, sr_levels, df) ==
    LET current_price == df[Len(df)].close_price
        totals == BoostedTotals(signals)
        final == DetermineFinalSignal(totals.buy, totals.sell)
        targets == _calculate_price_targets(current_price, final.signal_type,
                                            sr_levels, final.signal_strength)
    IN  [signal_type |-> ReturnedDecision(totals.buy, totals.sell).signal_type,
         strength |-> ReturnedDecision(totals.buy, totals.sell).strength,
         price_target |-> targets.price_target,
         stop_loss |-> targets.stop_loss,
         reasoning |-> _generate_reasoning(signals, final.signal_type,
                                           final.signal_strength),
         buy_strength |-> Round3(totals.buy),
         sell_strength |-> Round3(totals.sell),
         technical_signals |-> signals]

\* a variant that answers a short series with the HOLD fallback of
\* _generate_final_signal instead of raising
generate_signals_hold_fallback(md, pred) ==
    IF Len(md) < min_bars
    THEN [raised |-> FALSE,
          value |-> [signal_type |-> "HOLD", strength |-> 0,
                     price_target |-> <<>>, stop_loss |-> <<>>,
                     reasoning |-> <<"Error in signal calculation">>,
                     buy_strength |-> 0, sell_strength |-> 0,
                     technical_signals |-> [volume_confirmation |-> FALSE]]]
    ELSE LET df == SortByTimestamp(md)
             signals0 == _calculate_technical_signals(df)
             sr_levels == calculate_support_resistance(md, lookback_default)
             signals == IF pred # <<>>
                        THEN _incorporate_ml_signals(df, pred[1]) @@ signals0
                        ELSE signals0
         IN  [raised |-> FALSE,
              value |-> sr_levels @@ _generate_final_signal(signals, sr_levels, df)]

\* generate_signals(market_data, ml_prediction): pred is <<>> (None) or
\* <<prediction>>.  The ValueError of line 132 is re-raised by line 170.
\* The outcome is [raised |-> TRUE, error] or [raised |-> FALSE, value].
generate_signals(md, pred) ==
    IF Len(md) < min_bars
    THEN [raised |-> TRUE, error |-> "Insufficient data for signal generation"]
    ELSE LET df == SortByTimestamp(md)
             signals0 == _calculate_technical_signals(df)
             sr_levels == calculate_support_resistance(md, lookback_default)
             signals == IF pred # <<>>
                        THEN _incorporate_ml_signals(df, pred[1]) @@ signals0
                        ELSE signals0
         IN  [raised |-> FALSE,
              value |-> sr_levels @@ _generate_final_signal(signals, sr_levels, df)]

-----------------------------------------------------------------------------
(* RiskManager.                                                            *)

\* window of the volatility check
volatility_window == 20

\* default max_position_size = 0.1, in thousandths
max_position_size == 100

\* np.std(recent_prices) / np.mean(recent_prices) > 0.05, exactly:
\* spread / sum^2 > 1 / 400
HighVolatility(recent_prices) ==
    LET sum == SumSeq(recent_prices)
    IN  SpreadOf(recent_prices, Len(recent_prices)) > (sum * sum) \div 400

\* a variant that raises the strength with the volatility
volatility_factor_raising(recent_prices) ==
    LET root == Isqrt(100 * SpreadOf(recent_prices, Len(recent_prices)))
        vol == MulDiv(500, root, SumSeq(recent_prices))
    IN  1000 + (vol - 250)

\* max(0.5, 1 - (volatility - 0.05) * 5) in thousandths, with the volatility
\* taken to 1/5000 (the square root is where the float is inexact)
volatility_factor(recent_prices) ==
    LET root == Isqrt(100 * SpreadOf(recent_prices, Len(recent_prices)))
        vol == MulDiv(500, root, SumSeq(recent_prices))
    IN  Max(500, 1000 - (vol - 250))

\* lines 495-504: strength and reasoning after the volatility check
VolatilityStep(signal, md) ==
    LET recent_prices == ClosesOf(LastN(md, volatility_window))
    IN  IF Len(md) >= volatility_window /\ HighVolatility(recent_prices)
        THEN [strength |-> MulDiv(volatility_factor(recent_prices), signal.strength, 1000),
              reasoning |-> Append(signal.reasoning, "(Adjusted for high volatility)")]
        ELSE [strength |-> signal.strength, reasoning |-> signal.reasoning]

\* a variant that sizes the position from the strength the poor-ratio
\* penalty would leave
PositionSize_after_penalty(strength) ==
    RoundHalfEven(Min(ONE, strength \div 2) * max_position_size, ONE)

\* lines 506-508: round(min(max, strength * max), 3), in thousandths
PositionSize(strength) ==
    RoundHalfEven(Min(ONE, strength) * max_position_size, ONE)

Truthy(opt) == opt # <<>> /\ opt[1] # 0

\* lines 510-530: the ratio, when it is computed
RiskReward(signal, current_price) ==
    IF Truthy(signal.price_target) /\ Truthy(signal.stop_loss)
    THEN LET price_target == signal.price_target[1]
             stop_loss == signal.stop_loss[1]
             potential_gain == IF signal.signal_type = "BUY"
                               THEN price_target - current_price
                               ELSE current_price - price_target
             potential_loss == IF signal.signal_type = "BUY"
                               THEN current_price - stop_loss
                               ELSE stop_loss - current_price
         IN  IF potential_loss > 0
             THEN <<[gain |-> potential_gain, loss |-> potential_loss]>>
             ELSE <<>>
    ELSE <<>>

\* a variant with the threshold at 1.0
PoorRatio_below_one(rr) == rr.gain < rr.loss

\* risk_reward_ratio < 1.5
PoorRatio(rr) == 2 * rr.gain < 3 * rr.loss

\* variants: the strength is doubled, the strength is left as it is
HalveStrength_doubled(strength) == strength * 2
HalveStrength_kept(strength) == strength

\* line 529: filtered_signal['strength'] *= 0.5
HalveStrength(strength) == strength \div 2

\* the 0.2 of the final strength check
strength_veto == ONE \div 5

\* a variant whose final check sets the strength to 0 and the message but
\* leaves the signal type as it was
RiskFilterBody_keeps_type(signal, md) ==
    IF Len(md) = 0 THEN [raised |-> TRUE, error |-> "IndexError"]
    ELSE LET v == VolatilityStep(signal, md)
             current_price == md[Len(md)].close_price
             rr == RiskReward(signal, current_price)
             poor == rr # <<>> /\ PoorRatio(rr[1])
             strength == IF poor THEN HalveStrength(v.strength) ELSE v.strength
             reasoning == IF poor THEN Append(v.reasoning, "(Poor risk-reward ratio)")
                          ELSE v.reasoning
             ratio == IF rr = <<>> THEN <<>>
                      ELSE [risk_reward_ratio |->
                                RoundHalfEven(100 * rr[1].gain, rr[1].loss)]
             veto == strength < strength_veto
         IN  [raised |-> FALSE,
              value |->
                  [strength |-> IF veto THEN 0 ELSE strength,
                   reasoning |-> IF veto
                       THEN <<"Signal filtered out due to risk management rules">>
                       ELSE reasoning,
                   recommended_position_size |-> PositionSize(v.strength)]
                  @@ ratio @@ signal]

\* the try body of apply_risk_filters; market_data[-1] raises on an empty list
RiskFilterBody(signal, md) ==
    IF Len(md) = 0 THEN [raised |-> TRUE, error |-> "IndexError"]
    ELSE LET v == VolatilityStep(signal, md)
             current_price == md[Len(md)].close_price
             rr == RiskReward(signal, current_price)
             poor == rr # <<>> /\ PoorRatio(rr[1])
             strength == IF poor THEN HalveStrength(v.strength) ELSE v.strength
             reasoning == IF poor THEN Append(v.reasoning, "(Poor risk-reward ratio)")
                          ELSE v.reasoning
             ratio == IF rr = <<>> THEN <<>>
                      ELSE [risk_reward_ratio |->
                                RoundHalfEven(100 * rr[1].gain, rr[1].loss)]
             veto == strength < strength_veto
         IN  [raised |-> FALSE,
              value |->
                  [signal_type |-> IF veto THEN "HOLD" ELSE signal.signal_type,
                   strength |-> IF veto THEN 0 ELSE strength,
                   reasoning |-> IF veto
                       THEN <<"Signal filtered out due to risk management rules">>
                       ELSE reasoning,
                   recommended_position_size |-> PositionSize(v.strength)]
                  @@ ratio @@ signal]

\* a variant without the except branch
apply_risk_filters_unguarded(signal, md) == RiskFilterBody(signal, md)

\* the dict the caller handed over, as it is after the call.  Line 493
\* makes filtered_signal a (shallow) copy; the steps bind keys of the copy
\* to new floats and strings and write into no value the two dicts share
\* (the level lists, the votes), so the caller's dict keeps every entry.
\* The variant is the function without the copy: filtered_signal = signal.
CallersSignalAfter_no_copy(signal, md) ==
    LET r == RiskFilterBody(signal, md)
    IN  IF r.raised THEN signal ELSE r.value

CallersSignalAfter(signal, md) == signal

\* apply_risk_filters: except Exception returns the signal it was given
apply_risk_filters(signal, md) ==
    LET r == RiskFilterBody(signal, md)
    IN  IF r.raised THEN [raised |-> FALSE, value |-> signal] ELSE r

-----------------------------------------------------------------------------
(* PredictionEngine.generate_prediction.                                   *)

\* minimum number of bars
min_prediction_bars == 60

\* window of the trend fallback
trend_window == 5

\* base confidences of the three models, in tenths
model_confidence == [lstm |-> 7, random_forest |-> 8, svr |-> 6]

\* lines 296-305: estimates maps the models that produced a prediction to
\* their predicted price in cents
EnsembleEstimate(estimates) ==
    LET names == SortSeq([i \in 1..Cardinality(DOMAIN estimates) |->
                             CHOOSE x \in DOMAIN estimates :
                                 Cardinality({y \in DOMAIN estimates :
                                     model_confidence[y] < model_confidence[x]}) = i - 1],
                         LAMBDA a, b : model_confidence[a] < model_confidence[b])
        total_weight == SumSeq([i \in 1..Len(names) |-> model_confidence[names[i]]])
        weighted == SumSeq([i \in 1..Len(names) |->
                               estimates[names[i]] * model_confidence[names[i]]])
    IN  [ensemble_prediction |-> Q(weighted, total_weight),
         \* min(0.95, sum / len), in thousandths
         overall_confidence |-> IF 100 * total_weight > 950 * Len(names)
                                THEN QInt(950)
                                ELSE Q(100 * total_weight, Len(names))]

\* a variant that extrapolates the whole trend, without the 0.1 factor
TrendFallback_undamped(closes) ==
    LET recent_prices == LastN(closes, Min(trend_window, Len(closes)))
        first == recent_prices[1]
        last == recent_prices[Len(recent_prices)]
        current_price == closes[Len(closes)]
    IN  [ensemble_prediction |-> Q(current_price * last, first),
         overall_confidence |-> QInt(300)]

\* lines 307-312: current_price * (1 + trend * 0.1) with
\* trend = (last - first) / first over the last 5 closes
TrendFallback(closes) ==
    LET recent_prices == LastN(closes, Min(trend_window, Len(closes)))
        first == recent_prices[1]
        last == recent_prices[Len(recent_prices)]
        current_price == closes[Len(closes)]
    IN  [ensemble_prediction |-> Q(current_price * (10 * first + last - first), 10 * first),
         overall_confidence |-> QInt(300)]

\* a variant that asks for 20 bars only
generate_prediction_lenient(md, features_ok, estimates) ==
    IF Len(md) < min_bars
    THEN [raised |-> TRUE,
          error |-> "Insufficient data for prediction (minimum 60 records required)"]
    ELSE IF ~features_ok
    THEN [raised |-> TRUE, error |-> "feature extraction failed"]
    ELSE LET df == SortByTimestamp(md)
             closes == ClosesOf(df)
             e == IF DOMAIN estimates # {} THEN EnsembleEstimate(estimates)
                  ELSE TrendFallback(closes)
         IN  [raised |-> FALSE,
              value |-> [predicted_price |-> Round2(e.ensemble_prediction),
                         current_price |-> closes[Len(closes)],
                         confidence_score |-> RoundHalfEven(e.overall_confidence.n,
                                                            e.overall_confidence.d),
                         fallback |-> DOMAIN estimates = {}]]

\* generate_prediction.  features_ok is whether extract_features and
\* preprocess_features (pandas and scikit-learn) complete; their exceptions
\* are re-raised.  A model that is not loaded, has no file or fails is
\* simply absent from estimates.  Of the result only the entries the signal
\* generator reads, and current_price, are kept.
generate_prediction(md, features_ok, estimates) ==
    IF Len(md) < min_prediction_bars
    THEN [raised |-> TRUE,
          error |-> "Insufficient data for prediction (minimum 60 records required)"]
    ELSE IF ~features_ok
    THEN [raised |-> TRUE, error |-> "feature extraction failed"]
    ELSE LET df == SortByTimestamp(md)
             closes == ClosesOf(df)
             e == IF DOMAIN estimates # {} THEN EnsembleEstimate(estimates)
                  ELSE TrendFallback(closes)
         IN  [raised |-> FALSE,
              value |-> [predicted_price |-> Round2(e.ensemble_prediction),
                         current_price |-> closes[Len(closes)],
                         confidence_score |-> RoundHalfEven(e.overall_confidence.n,
                                                            e.overall_confidence.d),
                         fallback |-> DOMAIN estimates = {}]]

-----------------------------------------------------------------------------
(* The state machine: one request against one stored series.               *)

\* an operation that has not run
NotCalled == [called |-> FALSE]

\* a dict with no keys
EmptyDict == <<>>

Symbols == {"AAPL", "MSFT"}
ModelNames == {"ensemble", "lstm_short"}
Keys == Symbols \X ModelNames

\* the performance store of a fresh PredictionEngine (ml_service.py:27)
StoreIdle ==
    /\ model_performance = EmptyDict
    /\ update_log = [key \in Keys |-> <<>>]
    /\ trainings = 0
    /\ performance_stats = NotCalled
    /\ feed = "clean"

Callers == {1, 2}
ObjectIds == {1, 2, 3}

\* no caller of update_model_performance at work
RaceIdle ==
    /\ symbol_ref = 0
    /\ dicts = [d \in ObjectIds |-> 0]
    /\ records = [r \in ObjectIds |-> [predictions |-> <<>>, accuracy_scores |-> <<>>]]
    /\ threads = [t \in Callers |-> [pc |-> "idle", perf_data |-> 0]]
    /\ overlapped = FALSE

IndicatorNames == {"rsi", "stochastic_oscillator", "williams_r"}

\* no indicator computed, no dict of votes handed over
IndicatorsIdle == indicators = [name \in IndicatorNames |-> NotCalled]
FusionIdle == indicator_votes = EmptyDict

\* the state of everything the signal endpoints leave alone
RestIdle == StoreIdle /\ RaceIdle /\ IndicatorsIdle /\ FusionIdle

\* DataService.get_market_data hands the newest bar first ("desc"), the
\* documented contract of the services is oldest first ("asc")
Orders == {"asc", "desc"}

Endpoints == {"signals", "support-resistance"}

\* lookback_periods the support-resistance endpoint is asked for
Lookbacks == {20, lookback_default}

Models == {"lstm", "random_forest", "svr"}

\* what each model predicts, as a shift of the current price in cents
ModelShift == [lstm |-> 35, random_forest |-> 0 - 20, svr |-> 60]

\* predictions found in the cache: price in cents, confidence in thousandths
CachedPredictions ==
    {[predicted_price |-> 1300, confidence_score |-> 900],
     [predicted_price |-> 700, confidence_score |-> 900],
     [predicted_price |-> 1035, confidence_score |-> 700],
     [predicted_price |-> 1300, confidence_score |-> 400]}

\* the series as the caller holds it
Handed(md, order) == IF order = "desc" THEN Reverse(md) ELSE md

\* series lengths the risk filter is called with on its own
RiskBars == {0, 1, 19}

Init ==
    /\ RestIdle
    /\ \E trend \in Trends, wick \in Wicks, spike \in BOOLEAN, n \in Lens :
           market_data = SeriesOf(trend, wick, spike, n)
    /\ \E e \in Endpoints, o \in Orders, lb \in Lookbacks :
           /\ e = "signals" => lb = lookback_default
           /\ request = [endpoint |-> e, order |-> o, lookback_periods |-> lb]
    /\ ml_prediction = NotCalled
    /\ final_signal = NotCalled
    /\ filtered_signal = NotCalled
    /\ sr_response = NotCalled
    /\ levels = <<>>
    /\ clustered = <<>>
    /\ vote_totals = [buy |-> 0, sell |-> 0]
    /\ decision = NotCalled

\* routers/signals.py:61-64: a cached prediction is used as it is
GetCachedPrediction ==
    /\ request.endpoint = "signals"
    /\ ~ml_prediction.called /\ ~final_signal.called
    /\ \E p \in CachedPredictions :
           ml_prediction' = [called |-> TRUE, source |-> "cache",
                             raised |-> FALSE, value |-> p]
    /\ UNCHANGED rest_of_signal
    /\ UNCHANGED <<market_data, request, final_signal, filtered_signal, sr_response,
                   levels, clustered, vote_totals, decision>>

\* routers/signals.py:67-72 and routers/predictions.py:65
GeneratePrediction ==
    /\ request.endpoint = "signals"
    /\ ~ml_prediction.called /\ ~final_signal.called
    /\ \E features_ok \in BOOLEAN, avail \in SUBSET Models :
           LET md == Handed(market_data, request.order)
               cp == IF Len(md) = 0 THEN 0 ELSE market_data[Len(md)].close_price
               estimates == [m \in avail |-> cp + ModelShift[m]]
           IN  ml_prediction' =
                   [called |-> TRUE, source |-> "engine",
                    features_ok |-> features_ok, models |-> avail]
                   @@ generate_prediction(md, features_ok, estimates)
    /\ UNCHANGED rest_of_signal
    /\ UNCHANGED <<market_data, request, final_signal, filtered_signal, sr_response,
                   levels, clustered, vote_totals, decision>>

\* the ml_prediction argument: None unless a prediction was obtained
\* (routers/signals.py:73-75 swallows the failure)
PredictionArg ==
    IF ml_prediction.called /\ ~ml_prediction.raised
    THEN <<ml_prediction.value>> ELSE <<>>

\* routers/signals.py:78
GenerateSignals ==
    /\ request.endpoint = "signals"
    /\ ~final_signal.called
    /\ final_signal' = [called |-> TRUE]
           @@ generate_signals(Handed(market_data, request.order), PredictionArg)
    /\ UNCHANGED rest_of_signal
    /\ UNCHANGED <<market_data, request, ml_prediction, filtered_signal, sr_response,
                   levels, clustered, vote_totals, decision>>

\* routers/signals.py:83 hands over the series generate_signals had; bars
\* gives the lengths of the shorter ones (the newest bars of it)
ApplyRiskFilters ==
    /\ final_signal.called /\ ~final_signal.raised
    /\ ~filtered_signal.called
    /\ \E bars \in RiskBars \cup {Len(market_data)} :
           LET md == Handed(LastN(market_data, bars), request.order)
           IN  filtered_signal' =
                   [called |-> TRUE, bars |-> bars,
                    given |-> CallersSignalAfter(final_signal.value, md)]
                   @@ apply_risk_filters(final_signal.value, md)
    /\ UNCHANGED rest_of_signal
    /\ UNCHANGED <<market_data, request, ml_prediction, final_signal, sr_response,
                   levels, clustered, vote_totals, decision>>

\* routers/signals.py:174
CalculateSupportResistance ==
    /\ request.endpoint = "support-resistance"
    /\ ~sr_response.called
    /\ sr_response' = [called |-> TRUE]
           @@ calculate_support_resistance(Handed(market_data, request.order),
                                           request.lookback_periods)
    /\ UNCHANGED rest_of_signal
    /\ UNCHANGED <<market_data, request, ml_prediction, final_signal, filtered_signal,
                   levels, clustered, vote_totals, decision>>

Next ==
    \/ GetCachedPrediction
    \/ GeneratePrediction
    \/ GenerateSignals
    \/ ApplyRiskFilters
    \/ CalculateSupportResistance

Spec == Init /\ [][Next]_vars

-----------------------------------------------------------------------------
(* _cluster_levels on its own: every list of up to MaxLevels levels.       *)

LevelChoices == {1000, 1015, 1020, 1030, 1100, 2000}

RECURSIVE ListsUpTo(_, _)
ListsUpTo(S, k) ==
    IF k = 0 THEN {<<>>}
    ELSE LET shorter == ListsUpTo(S, k - 1)
         IN  shorter \cup {Append(l, x) : l \in {m \in shorter : Len(m) = k - 1}, x \in S}

InitCluster ==
    /\ RestIdle
    /\ levels \in {[i \in 1..Len(l) |-> QInt(l[i])] : l \in ListsUpTo(LevelChoices, MaxLevels)}
    /\ clustered = <<>>
    /\ market_data = <<>>
    /\ request = [endpoint |-> "none", order |-> "asc", lookback_periods |-> lookback_default]
    /\ ml_prediction = NotCalled
    /\ final_signal = NotCalled
    /\ filtered_signal = NotCalled
    /\ sr_response = NotCalled
    /\ vote_totals = [buy |-> 0, sell |-> 0]
    /\ decision = NotCalled

\* _cluster_levels(levels)
ClusterLevels ==
    /\ Len(clustered) = 0
    /\ clustered' = <<_cluster_levels(levels)>>
    /\ UNCHANGED rest_of_signal
    /\ UNCHANGED <<market_data, request, ml_prediction, final_signal, filtered_signal,
                   sr_response, levels, vote_totals, decision>>

\* _cluster_levels of what it returned
ClusterAgain ==
    /\ Len(clustered) = 1
    /\ clustered' = Append(clustered, _cluster_levels(clustered[1]))
    /\ UNCHANGED rest_of_signal
    /\ UNCHANGED <<market_data, request, ml_prediction, final_signal, filtered_signal,
                   sr_response, levels, vote_totals, decision>>

NextCluster == ClusterLevels \/ ClusterAgain

SpecCluster == InitCluster /\ [][NextCluster]_vars

-----------------------------------------------------------------------------
(* The decision rule of _generate_final_signal on its own: every pair of   *)
(* post-boost totals out of TotalChoices.                                  *)

TotalChoices ==
    {0, ONE \div 10, ONE \div 4, signal_floor, signal_floor + 800,
     (13 * ONE) \div 20, ONE, (6 * ONE) \div 5}

InitDecide ==
    /\ RestIdle
    /\ vote_totals \in [buy : TotalChoices, sell : TotalChoices]
    /\ decision = NotCalled
    /\ levels = <<>>
    /\ clustered = <<>>
    /\ market_data = <<>>
    /\ request = [endpoint |-> "none", order |-> "asc", lookback_periods |-> lookback_default]
    /\ ml_prediction = NotCalled
    /\ final_signal = NotCalled
    /\ filtered_signal = NotCalled
    /\ sr_response = NotCalled

\* lines 330-351: the signal type and the strength that is returned
DecideFinalSignal ==
    /\ ~decision.called
    /\ decision' = [called |-> TRUE]
           @@ ReturnedDecision(vote_totals.buy, vote_totals.sell)
    /\ UNCHANGED rest_of_signal
    /\ UNCHANGED <<market_data, request, ml_prediction, final_signal, filtered_signal,
                   sr_response, levels, clustered, vote_totals>>

NextDecide == DecideFinalSignal

SpecDecide == InitDecide /\ [][NextDecide]_vars

-----------------------------------------------------------------------------
(* Performance tracking: PredictionEngine.update_model_performance and      *)
(* get_model_performance_stats, and ModelManager.train_models, which all    *)
(* work on the one dict ModelManager.model_performance.                     *)
(* A dict is a function on its keys.  datetime.now() of an entry is the     *)
(* ordinal of the call for its key.  An accuracy is an exact rational.      *)

\* ml_service.py:392, "Keep only last 100 predictions"
history_capacity == 100

\* most calls made for the key that is followed over a long history
MaxCalls == 102
\* most calls made for every other key, and for every key once trained
MaxSideCalls == 1
\* most train_models runs
MaxTrainings == 1

\* lines 372-375
EmptyRecord == [predictions |-> <<>>, accuracy_scores |-> <<>>]

\* lines 378-379: max(0, 1 - abs(actual_price - predicted_price) / actual_price)
\* for actual_price # 0
Accuracy(actual_price, predicted_price) ==
    LET diff == Abs(actual_price - predicted_price)
        num == IF actual_price > 0 THEN actual_price - diff
               ELSE Abs(actual_price) + diff
    IN  IF num <= 0 THEN QInt(0) ELSE Q(num, Abs(actual_price))

\* lines 383-388: the entry appended to 'predictions'
PerformanceEntry(actual_price, predicted_price, now) ==
    [predicted |-> predicted_price,
     actual |-> actual_price,
     accuracy |-> Accuracy(actual_price, predicted_price),
     timestamp |-> now]

\* a variant of s[-k:] that keeps one entry less
LastUpTo_one_less(s, k) == IF Len(s) < k THEN s ELSE LastN(s, k - 1)

\* Python s[-k:]
LastUpTo(s, k) == IF Len(s) <= k THEN s ELSE LastN(s, k)

\* lines 391-394, on the record after both appends
KeepLast_predictions_only(appended) ==
    IF Len(appended.predictions) > history_capacity
    THEN [predictions |-> LastUpTo(appended.predictions, history_capacity),
          accuracy_scores |-> appended.accuracy_scores]
    ELSE appended

KeepLast(appended) ==
    IF Len(appended.predictions) > history_capacity
    THEN [predictions |-> LastUpTo(appended.predictions, history_capacity),
          accuracy_scores |-> LastUpTo(appended.accuracy_scores, history_capacity)]
    ELSE appended

\* update_model_performance, lines 365-402, run alone.  Every exception is
\* caught and logged at line 401: a zero actual_price (ZeroDivisionError at
\* 378) and a stored entry without 'predictions' (KeyError at 383) leave
\* what lines 368-376 created and append nothing.
update_model_performance(perf, symbol, actual_price, predicted_price, model_name, now) ==
    LET p1 == IF symbol \in DOMAIN perf THEN perf
              ELSE [s \in DOMAIN perf \cup {symbol} |->
                       IF s = symbol THEN EmptyDict ELSE perf[s]]
        p2 == IF model_name \in DOMAIN p1[symbol] THEN p1
              ELSE [p1 EXCEPT ![symbol] =
                       [m \in DOMAIN p1[symbol] \cup {model_name} |->
                           IF m = model_name THEN EmptyRecord ELSE p1[symbol][m]]]
        perf_data == p2[symbol][model_name]
    IN  IF actual_price = 0 THEN p2
        ELSE IF "predictions" \notin DOMAIN perf_data THEN p2
        ELSE LET accuracy == Accuracy(actual_price, predicted_price)
                 appended ==
                     [predictions |->
                          Append(perf_data.predictions,
                                 PerformanceEntry(actual_price, predicted_price, now)),
                      accuracy_scores |-> Append(perf_data.accuracy_scores, accuracy)]
             IN  [p2 EXCEPT ![symbol][model_name] = KeepLast(appended)]

\* the models train_models reports on (of lines 113-181: lstm_short,
\* lstm_medium, lstm_long, the random forests, svr_trend)
TrainedNames == {"lstm_short", "svr_trend"}

\* lines 100-181: the metrics of each model, or {'error': ...}
TrainingResults(trained_ok) ==
    [m \in TrainedNames |->
        IF trained_ok THEN [metrics |-> "trained"] ELSE [error |-> "training failed"]]

\* train_models, lines 86-194: under 100 usable rows it raises (line 98);
\* otherwise line 184 binds the symbol to the training results
train_models(perf, symbol, enough_data, trained_ok) ==
    IF ~enough_data THEN perf
    ELSE [s \in DOMAIN perf \cup {symbol} |->
             IF s = symbol THEN TrainingResults(trained_ok) ELSE perf[s]]

QMin(s) == CHOOSE x \in {s[i] : i \in 1..Len(s)} : \A i \in 1..Len(s) : QLeq(x, s[i])
QMax(s) == CHOOSE x \in {s[i] : i \in 1..Len(s)} : \A i \in 1..Len(s) : QLeq(s[i], x)

\* get_model_performance_stats, lines 404-425.  An entry without
\* 'accuracy_scores' raises KeyError, answered by {} (line 425).
\* std_accuracy is left out.
get_model_performance_stats(perf, symbol) ==
    IF symbol \notin DOMAIN perf THEN EmptyDict
    ELSE IF \E m \in DOMAIN perf[symbol] : "accuracy_scores" \notin DOMAIN perf[symbol][m]
    THEN EmptyDict
    ELSE [m \in {x \in DOMAIN perf[symbol] : Len(perf[symbol][x].accuracy_scores) > 0} |->
             LET scores == perf[symbol][m].accuracy_scores
             IN  [avg_accuracy |-> QMean(scores),
                  min_accuracy |-> QMin(scores),
                  max_accuracy |-> QMax(scores),
                  total_predictions |-> Len(scores)]]

\* the prices reported call after call: cents, (actual, predicted)
Feeds ==
    [clean |-> <<[actual |-> 1000, predicted |-> 1000],
                 [actual |-> 1000, predicted |-> 900],
                 [actual |-> 1000, predicted |-> 2500],
                 [actual |-> 1250, predicted |-> 1300]>>,
     mixed |-> <<[actual |-> 1000, predicted |-> 990],
                 [actual |-> 0, predicted |-> 1000],
                 [actual |-> 0 - 1000, predicted |-> 0 - 500],
                 [actual |-> 1000, predicted |-> 1010]>>]

\* what the c-th call for a key reports
ObservationAt(f, c) == Feeds[f][((c - 1) % Len(Feeds[f])) + 1]

\* the key followed over more than history_capacity calls
HotKey == <<"AAPL", "ensemble">>

\* one engine, no call made yet
InitPerformance ==
    /\ model_performance = EmptyDict
    /\ update_log = [key \in Keys |-> <<>>]
    /\ trainings = 0
    /\ performance_stats = NotCalled
    /\ feed \in DOMAIN Feeds
    /\ market_data = SeriesOf("up", "plain", FALSE, MaxBars)
    /\ request = [endpoint |-> "predictions", order |-> "desc",
                  lookback_periods |-> lookback_default]
    /\ ml_prediction = NotCalled
    /\ final_signal = NotCalled
    /\ filtered_signal = NotCalled
    /\ sr_response = NotCalled
    /\ levels = <<>>
    /\ clustered = <<>>
    /\ vote_totals = [buy |-> 0, sell |-> 0]
    /\ decision = NotCalled
    /\ RaceIdle /\ IndicatorsIdle /\ FusionIdle

\* POST /update-performance/{symbol} (routers/predictions.py:196-210)
UpdateModelPerformance ==
    /\ \E key \in Keys :
           /\ Len(update_log[key])
                  < (IF key = HotKey /\ trainings = 0 THEN MaxCalls ELSE MaxSideCalls)
           /\ LET now == Len(update_log[key]) + 1
                  obs == ObservationAt(feed, now)
              IN  /\ model_performance' =
                         update_model_performance(model_performance, key[1], obs.actual,
                                                  obs.predicted, key[2], now)
                  /\ update_log' =
                         [update_log EXCEPT ![key] =
                             Append(@, [actual_price |-> obs.actual,
                                        predicted_price |-> obs.predicted,
                                        now |-> now])]
    /\ performance_stats' = NotCalled
    /\ UNCHANGED <<trainings, feed>>
    /\ UNCHANGED signal_vars
    /\ UNCHANGED rest_of_store

\* the background task of POST /train/{symbol}
\* (routers/predictions.py:173-177)
TrainModels ==
    /\ trainings < MaxTrainings
    /\ Len(update_log[HotKey]) <= MaxSideCalls
    /\ \E symbol \in Symbols, enough_data \in BOOLEAN, trained_ok \in BOOLEAN :
           model_performance' =
               train_models(model_performance, symbol, enough_data, trained_ok)
    /\ trainings' = trainings + 1
    /\ performance_stats' = NotCalled
    /\ UNCHANGED <<update_log, feed>>
    /\ UNCHANGED signal_vars
    /\ UNCHANGED rest_of_store

\* GET /performance/{symbol} (routers/predictions.py:127-140)
GetModelPerformance ==
    /\ \E symbol \in Symbols :
           performance_stats' =
               [called |-> TRUE, symbol |-> symbol,
                value |-> get_model_performance_stats(model_performance, symbol)]
    /\ UNCHANGED <<model_performance, update_log, trainings, feed>>
    /\ UNCHANGED signal_vars
    /\ UNCHANGED rest_of_store

\* POST /generate (routers/predictions.py:65): generate_prediction reads the
\* series and the loaded models only
PredictPrice ==
    /\ ~ml_prediction.called
    /\ \E features_ok \in BOOLEAN :
           ml_prediction' =
               [called |-> TRUE, source |-> "engine",
                features_ok |-> features_ok, models |-> {}]
               @@ generate_prediction(Handed(market_data, request.order),
                                      features_ok, EmptyDict)
    /\ performance_stats' = NotCalled
    /\ UNCHANGED <<model_performance, update_log, trainings, feed>>
    /\ UNCHANGED rest_of_store
    /\ UNCHANGED <<market_data, request, final_signal, filtered_signal, sr_response,
                   levels, clustered, vote_totals, decision>>

NextPerformance ==
    \/ UpdateModelPerformance
    \/ TrainModels
    \/ GetModelPerformance
    \/ PredictPrice

SpecPerformance == InitPerformance /\ [][NextPerformance]_vars

-----------------------------------------------------------------------------
(* Two callers of update_model_performance for one (symbol, model) key,     *)
(* interleaved statement by statement.  The method takes no lock.  Dicts    *)
(* and records are objects: a caller that binds a new dict or record        *)
(* replaces the binding another caller may still hold.  The object a        *)
(* caller creates has the caller's number, the object found stored has 3.   *)

\* what is stored for the key when the two calls begin
SeedCounts == {0, 99, 100}
Seeds ==
    {[symbol |-> FALSE, model |-> FALSE, entries |-> 0],
     [symbol |-> TRUE, model |-> FALSE, entries |-> 0]}
    \cup {[symbol |-> TRUE, model |-> TRUE, entries |-> n] : n \in SeedCounts}

\* the record left by n calls made one at a time with the "clean" prices
SeededRecord(n) ==
    [predictions |->
         [i \in 1..n |->
             PerformanceEntry(ObservationAt("clean", i).actual,
                              ObservationAt("clean", i).predicted, i)],
     accuracy_scores |->
         [i \in 1..n |->
             Accuracy(ObservationAt("clean", i).actual,
                      ObservationAt("clean", i).predicted)]]

\* what each caller reports: cents, (actual, predicted)
CallerReports == <<[actual |-> 1000, predicted |-> 950],
                   [actual |-> 1000, predicted |-> 1050]>>

\* datetime.now() at an append: later than every stored entry, and later
\* than the appends made before
Now ==
    history_capacity + 1
    + Cardinality({t \in Callers :
                      threads[t].pc \in {"389", "392", "393", "394", "done"}})

InitInterleaved ==
    /\ \E seed \in Seeds :
           /\ symbol_ref = IF seed.symbol THEN 3 ELSE 0
           /\ dicts = [d \in ObjectIds |-> IF d = 3 /\ seed.model THEN 3 ELSE 0]
           /\ records = [r \in ObjectIds |->
                            IF r = 3 THEN SeededRecord(seed.entries) ELSE EmptyRecord]
    /\ threads = [t \in Callers |-> [pc |-> "idle", perf_data |-> 0]]
    /\ overlapped = FALSE
    /\ StoreIdle /\ IndicatorsIdle /\ FusionIdle
    /\ market_data = <<>>
    /\ request = [endpoint |-> "none", order |-> "asc", lookback_periods |-> lookback_default]
    /\ ml_prediction = NotCalled
    /\ final_signal = NotCalled
    /\ filtered_signal = NotCalled
    /\ sr_response = NotCalled
    /\ levels = <<>>
    /\ clustered = <<>>
    /\ vote_totals = [buy |-> 0, sell |-> 0]
    /\ decision = NotCalled

UnderWay(t) == threads[t].pc \notin {"idle", "done", "raised"}

\* a caller enters update_model_performance (line 365)
BeginCall ==
    /\ \E t \in Callers :
           /\ threads[t].pc = "idle"
           /\ threads' = [threads EXCEPT ![t].pc = "368"]
           /\ overlapped' = (overlapped \/ \E u \in Callers \ {t} : UnderWay(u))
    /\ UNCHANGED <<symbol_ref, dicts, records>>
    /\ UNCHANGED rest_of_race

\* a caller runs its next statement of lines 368-394; pc is the line
RunStatement ==
    /\ \E t \in Callers :
           LET pc == threads[t].pc
               perf_data == threads[t].perf_data
               report == CallerReports[t]
               goto(line) == [threads EXCEPT ![t].pc = line]
           IN  \/ /\ pc = "368"
                  /\ threads' = goto(IF symbol_ref = 0 THEN "369" ELSE "371")
                  /\ UNCHANGED <<symbol_ref, dicts, records>>
               \/ /\ pc = "369"
                  /\ symbol_ref' = t
                  /\ dicts' = [dicts EXCEPT ![t] = 0]
                  /\ threads' = goto("371")
                  /\ UNCHANGED records
               \/ /\ pc = "371"
                  /\ threads' = goto(IF dicts[symbol_ref] = 0 THEN "372" ELSE "382")
                  /\ UNCHANGED <<symbol_ref, dicts, records>>
               \/ /\ pc = "372"
                  /\ dicts' = [dicts EXCEPT ![symbol_ref] = t]
                  /\ records' = [records EXCEPT ![t] = EmptyRecord]
                  /\ threads' = goto("382")
                  /\ UNCHANGED symbol_ref
               \/ /\ pc = "382"
                  /\ threads' =
                         IF dicts[symbol_ref] = 0
                         THEN goto("raised")
                         ELSE [threads EXCEPT ![t] =
                                  [pc |-> "383", perf_data |-> dicts[symbol_ref]]]
                  /\ UNCHANGED <<symbol_ref, dicts, records>>
               \/ /\ pc = "383"
                  /\ records' =
                         [records EXCEPT ![perf_data].predictions =
                             Append(@, PerformanceEntry(report.actual,
                                                        report.predicted, Now))]
                  /\ threads' = goto("389")
                  /\ UNCHANGED <<symbol_ref, dicts>>
               \/ /\ pc = "389"
                  /\ records' =
                         [records EXCEPT ![perf_data].accuracy_scores =
                             Append(@, Accuracy(report.actual, report.predicted))]
                  /\ threads' = goto("392")
                  /\ UNCHANGED <<symbol_ref, dicts>>
               \/ /\ pc = "392"
                  /\ threads' =
                         goto(IF Len(records[perf_data].predictions) > history_capacity
                              THEN "393" ELSE "done")
                  /\ UNCHANGED <<symbol_ref, dicts, records>>
               \/ /\ pc = "393"
                  /\ records' =
                         [records EXCEPT ![perf_data].predictions =
                             LastUpTo(@, history_capacity)]
                  /\ threads' = goto("394")
                  /\ UNCHANGED <<symbol_ref, dicts>>
               \/ /\ pc = "394"
                  /\ records' =
                         [records EXCEPT ![perf_data].accuracy_scores =
                             LastUpTo(@, history_capacity)]
                  /\ threads' = goto("done")
                  /\ UNCHANGED <<symbol_ref, dicts>>
    /\ UNCHANGED overlapped
    /\ UNCHANGED rest_of_race

NextInterleaved == BeginCall \/ RunStatement

SpecInterleaved == InitInterleaved /\ [][NextInterleaved]_vars

-----------------------------------------------------------------------------
(* TechnicalIndicators on a series, position by position.  A float is an    *)
(* optional rational: <<>> is NaN (also the value before the window is      *)
(* filled), <<[n, d]>> with d = 0 is an infinity of the sign of n.  A       *)
(* rolling value at position t depends on the bars up to t only.            *)

k_window == 14
d_window == 3
williams_window == 14

\* rsi(data), every position
rsi_series(data) == [t \in 1..Len(data) |-> rsi(FirstN(data, t))]

MinOf(xs) == CHOOSE x \in {xs[i] : i \in 1..Len(xs)} : \A i \in 1..Len(xs) : x <= xs[i]
MaxOf(xs) == CHOOSE x \in {xs[i] : i \in 1..Len(xs)} : \A i \in 1..Len(xs) : xs[i] <= x

\* num / den of floats that hold integers: 0 / 0 is NaN, x / 0 an infinity
FloatDiv(scale, num, den) ==
    IF den # 0 THEN <<Q(scale * num, den)>>
    ELSE IF num = 0 THEN <<>>
    ELSE <<[n |-> IF scale * num > 0 THEN 1 ELSE 0 - 1, d |-> 0]>>

\* lines 68-71: k_percent at the last position of the bars
KPercent(bars) ==
    IF Len(bars) < k_window THEN <<>>
    ELSE LET recent == LastN(bars, k_window)
             lowest_low == MinOf([i \in 1..k_window |-> recent[i].low_price])
             highest_high == MaxOf([i \in 1..k_window |-> recent[i].high_price])
             close == bars[Len(bars)].close_price
         IN  FloatDiv(100, close - lowest_low, highest_high - lowest_low)

\* line 72: the mean of the last d_window k_percent values, NaN when one
\* of them is, an infinity when one of them is
DPercent(bars) ==
    IF Len(bars) < d_window THEN <<>>
    ELSE LET ks == [j \in 1..d_window |-> KPercent(FirstN(bars, Len(bars) - d_window + j))]
         IN  IF \E j \in 1..d_window : ks[j] = <<>> THEN <<>>
             ELSE IF \E j \in 1..d_window : ks[j][1].d = 0
             THEN ks[CHOOSE j \in 1..d_window : ks[j][1].d = 0]
             ELSE <<QMean([j \in 1..d_window |-> ks[j][1]])>>

\* stochastic_oscillator(high, low, close), lines 65-77
stochastic_oscillator(bars) ==
    [k_percent |-> [t \in 1..Len(bars) |-> KPercent(FirstN(bars, t))],
     d_percent |-> [t \in 1..Len(bars) |-> DPercent(FirstN(bars, t))]]

\* line 97 at the last position of the bars
WilliamsAt(bars) ==
    IF Len(bars) < williams_window THEN <<>>
    ELSE LET recent == LastN(bars, williams_window)
             highest_high == MaxOf([i \in 1..williams_window |-> recent[i].high_price])
             lowest_low == MinOf([i \in 1..williams_window |-> recent[i].low_price])
             close == bars[Len(bars)].close_price
         IN  FloatDiv(0 - 100, highest_high - close, highest_high - lowest_low)

\* williams_r(high, low, close), lines 91-98
williams_r(bars) == [t \in 1..Len(bars) |-> WilliamsAt(FirstN(bars, t))]

\* the series the indicators are given: closes of a trend, every bar
\* reaching `spread` above and below its close (0: a bar without range)
Spreads == {0, 5}
IndicatorLens == {13, 14, 16, 20, 30}

IndicatorSeries(trend, spread, n) ==
    [i \in 1..n |->
        [timestamp |-> i,
         high_price |-> CloseAt(trend, i, n) + spread,
         low_price |-> CloseAt(trend, i, n) - spread,
         close_price |-> CloseAt(trend, i, n),
         volume |-> 1000]]

InitIndicators ==
    /\ \E trend \in Trends, spread \in Spreads, n \in IndicatorLens :
           market_data = IndicatorSeries(trend, spread, n)
    /\ indicators = [name \in IndicatorNames |-> NotCalled]
    /\ request = [endpoint |-> "none", order |-> "asc", lookback_periods |-> lookback_default]
    /\ ml_prediction = NotCalled
    /\ final_signal = NotCalled
    /\ filtered_signal = NotCalled
    /\ sr_response = NotCalled
    /\ levels = <<>>
    /\ clustered = <<>>
    /\ vote_totals = [buy |-> 0, sell |-> 0]
    /\ decision = NotCalled
    /\ StoreIdle /\ RaceIdle /\ FusionIdle

\* the variables the indicators leave alone
rest_of_indicators == <<signal_vars, store_vars, race_vars, fusion_vars>>

\* feature_engineering.py:140, signal_service.py:178
ComputeRsi ==
    /\ ~indicators["rsi"].called
    /\ indicators' = [indicators EXCEPT !["rsi"] =
                         [called |-> TRUE, value |-> rsi_series(ClosesOf(market_data))]]
    /\ UNCHANGED rest_of_indicators

\* feature_engineering.py:157-161
ComputeStochastic ==
    /\ ~indicators["stochastic_oscillator"].called
    /\ indicators' = [indicators EXCEPT !["stochastic_oscillator"] =
                         [called |-> TRUE, value |-> stochastic_oscillator(market_data)]]
    /\ UNCHANGED rest_of_indicators

\* feature_engineering.py:170-172
ComputeWilliamsR ==
    /\ ~indicators["williams_r"].called
    /\ indicators' = [indicators EXCEPT !["williams_r"] =
                         [called |-> TRUE, value |-> williams_r(market_data)]]
    /\ UNCHANGED rest_of_indicators

NextIndicators == ComputeRsi \/ ComputeStochastic \/ ComputeWilliamsR

SpecIndicators == InitIndicators /\ [][NextIndicators]_vars

-----------------------------------------------------------------------------
(* _generate_final_signal on dicts of votes drawn directly: every           *)
(* combination of votes the indicators can hand over, also those no series  *)
(* of the family produces (equal totals, totals near 1).                    *)

\* strengths of a BUY or SELL vote
StrengthChoices == {(4 * ONE) \div 5, ONE}

\* the two entries of one kind
Vote(kind, side, strength) ==
    (SignalKey(kind) :> side) @@ (StrengthKey(kind) :> strength)

\* lines 181-189: rsi always votes, HOLD with strength 0.  ma, bb and ml
\* alike, or have no entry (lines 208, 224, 260)
VoteChoices(kind) ==
    {Vote(kind, side, strength) : side \in {"BUY", "SELL"}, strength \in StrengthChoices}
    \cup {Vote(kind, "HOLD", 0)}

\* lines 196-201: macd votes BUY or SELL, SELL with strength 0 when the
\* lines are equal and not 0
MacdChoices ==
    {Vote("macd", side, strength) : side \in {"BUY", "SELL"}, strength \in StrengthChoices}
    \cup {Vote("macd", "SELL", 0)}

\* lines 239-244: volume_strength is above 0.5 when confirmed
VolumeChoices ==
    {[volume_confirmation |-> FALSE, volume_strength |-> 0],
     [volume_confirmation |-> TRUE, volume_strength |-> (3 * ONE) \div 5],
     [volume_confirmation |-> TRUE, volume_strength |-> ONE]}

\* the frames the votes come with: one with a pivot level on either side
\* of the current price, and one of bars without a range, which has no
\* level on either side (every pivot and both averages equal the price)
FusionFrame == SeriesOf("flat", "plain", FALSE, min_bars)
BareFrame ==
    [i \in 1..min_bars |->
        [timestamp |-> i, high_price |-> 1000, low_price |-> 1000,
         close_price |-> 1000, volume |-> 1000]]
FusionFrames == {FusionFrame, BareFrame}

InitFusion ==
    /\ \E r \in VoteChoices("rsi"), m \in MacdChoices,
          a \in VoteChoices("ma") \cup {EmptyDict},
          b \in VoteChoices("bb") \cup {EmptyDict},
          l \in VoteChoices("ml") \cup {EmptyDict},
          v \in VolumeChoices :
           indicator_votes = r @@ m @@ a @@ b @@ l @@ v
    /\ market_data \in FusionFrames
    /\ request = [endpoint |-> "signals", order |-> "asc",
                  lookback_periods |-> lookback_default]
    /\ ml_prediction = NotCalled
    /\ final_signal = NotCalled
    /\ filtered_signal = NotCalled
    /\ sr_response = NotCalled
    /\ levels = <<>>
    /\ clustered = <<>>
    /\ vote_totals = [buy |-> 0, sell |-> 0]
    /\ decision = NotCalled
    /\ StoreIdle /\ RaceIdle /\ IndicatorsIdle

\* signal_service.py:150-160: the levels of the frame, the votes fused
\* into the decision, the levels added to it
FuseVotes ==
    /\ ~final_signal.called
    /\ final_signal' =
           LET sr_levels == calculate_support_resistance(market_data, lookback_default)
           IN  [called |-> TRUE, raised |-> FALSE,
                value |-> sr_levels
                          @@ _generate_final_signal(indicator_votes, sr_levels,
                                                    market_data)]
    /\ UNCHANGED <<market_data, request, ml_prediction, filtered_signal, sr_response,
                   levels, clustered, vote_totals, decision>>
    /\ UNCHANGED <<store_vars, race_vars, indicator_vars, fusion_vars>>

\* routers/signals.py:83
FilterFused ==
    /\ final_signal.called /\ ~filtered_signal.called
    /\ filtered_signal' =
           [called |-> TRUE, bars |-> Len(market_data),
            given |-> CallersSignalAfter(final_signal.value, market_data)]
           @@ apply_risk_filters(final_signal.value, market_data)
    /\ UNCHANGED <<market_data, request, ml_prediction, final_signal, sr_response,
                   levels, clustered, vote_totals, decision>>
    /\ UNCHANGED <<store_vars, race_vars, indicator_vars, fusion_vars>>

NextFusion == FuseVotes \/ FilterFused

SpecFusion == InitFusion /\ [][NextFusion]_vars

-----------------------------------------------------------------------------
(* One series asked for signals twice, with a prediction and without.      *)

\* series lengths: the least generate_signals takes (no 50-bar average),
\* and one generate_prediction takes too
SuppliedLens == {min_bars, MaxBars}

\* confidence scores around the 0.5 of line 260, in thousandths
Confidences == {300, 500, 501, 900}

\* predicted prices for a current price cp: none, negative, moves of 2%
\* either way, exact and one cent beyond, and moves of 30%
PredictedPrices(cp) ==
    {0, 0 - 500, cp + (30 * cp) \div 100, cp - (30 * cp) \div 100}
    \cup {cp + side * ((2 * cp) \div 100 + extra) :
              side \in {1, 0 - 1}, extra \in {0, 1}}

\* the close of the newest bar (the series is stored oldest first)
CurrentClose == market_data[Len(market_data)].close_price

InitSupplied ==
    /\ RestIdle
    /\ \E trend \in Trends, wick \in Wicks, spike \in BOOLEAN, n \in SuppliedLens :
           market_data = SeriesOf(trend, wick, spike, n)
    /\ \E o \in Orders :
           request = [endpoint |-> "signals", order |-> o,
                      lookback_periods |-> lookback_default]
    /\ ml_prediction = NotCalled
    /\ final_signal = NotCalled
    /\ filtered_signal = NotCalled
    /\ sr_response = NotCalled
    /\ levels = <<>>
    /\ clustered = <<>>
    /\ vote_totals = [buy |-> 0, sell |-> 0]
    /\ decision = NotCalled

\* routers/signals.py:61-64: the prediction found for the symbol
SupplyPrediction ==
    /\ ~ml_prediction.called /\ ~final_signal.called
    /\ \E pp \in PredictedPrices(CurrentClose), c \in Confidences :
           ml_prediction' = [called |-> TRUE, source |-> "cache", raised |-> FALSE,
                             value |-> [predicted_price |-> pp,
                                        confidence_score |-> c]]
    /\ UNCHANGED rest_of_signal
    /\ UNCHANGED <<market_data, request, final_signal, filtered_signal, sr_response,
                   levels, clustered, vote_totals, decision>>

\* routers/signals.py:67-72 with no model loaded: the trend fallback of
\* generate_prediction, if the series is long enough for it
FallbackPrediction ==
    /\ ~ml_prediction.called /\ ~final_signal.called
    /\ ml_prediction' = [called |-> TRUE, source |-> "engine",
                         features_ok |-> TRUE, models |-> {}]
           @@ generate_prediction(Handed(market_data, request.order), TRUE, EmptyDict)
    /\ UNCHANGED rest_of_signal
    /\ UNCHANGED <<market_data, request, final_signal, filtered_signal, sr_response,
                   levels, clustered, vote_totals, decision>>

\* routers/signals.py:78 for a later request that finds no prediction
GenerateSignalsUnaided ==
    /\ final_signal.called /\ ~decision.called
    /\ decision' = [called |-> TRUE]
           @@ generate_signals(Handed(market_data, request.order), <<>>)
    /\ UNCHANGED rest_of_signal
    /\ UNCHANGED <<market_data, request, ml_prediction, final_signal, filtered_signal,
                   sr_response, levels, clustered, vote_totals>>

NextSupplied ==
    \/ SupplyPrediction
    \/ FallbackPrediction
    \/ GenerateSignals
    \/ GenerateSignalsUnaided

SpecSupplied == InitSupplied /\ [][NextSupplied]_vars

-----------------------------------------------------------------------------
(* Series whose closes are all equal, asked for signals without a          *)
(* prediction.                                                             *)

\* lengths from the least generate_signals takes, on both sides of the
\* 50 bars of the long average
FlatLens == {min_bars, min_bars + 1, ma_long_window - 1, ma_long_window, MaxBars}

\* the close of every bar, in cents
FlatPrices == {1, 1000, 2000}

\* volume patterns: level, a spike or a surge at the newest bar, no volume
\* at all, volume at the newest bar only, volume falling from bar to bar
VolumePatterns == {"level", "spike", "surge", "none", "late", "fading"}

VolumeAt(pattern, i, n) ==
    CASE pattern = "level"  -> 1000
      [] pattern = "spike"  -> IF i = n THEN 1600 ELSE 1000
      [] pattern = "surge"  -> IF i = n THEN 1000 * 1000 ELSE 1
      [] pattern = "none"   -> 0
      [] pattern = "late"   -> IF i = n THEN 500 ELSE 0
      [] pattern = "fading" -> 1000 * (n + 1 - i)

FlatSeries(price, wick, pattern, n) ==
    [i \in 1..n |->
        [timestamp |-> i,
         high_price |-> HighAt(wick, price, i),
         low_price |-> Max(0, LowAt(wick, price, i)),
         close_price |-> price,
         volume |-> VolumeAt(pattern, i, n)]]

InitFlat ==
    /\ RestIdle
    /\ \E price \in FlatPrices, wick \in Wicks, pattern \in VolumePatterns,
          n \in FlatLens :
           market_data = FlatSeries(price, wick, pattern, n)
    /\ \E o \in Orders :
           request = [endpoint |-> "signals", order |-> o,
                      lookback_periods |-> lookback_default]
    /\ ml_prediction = NotCalled
    /\ final_signal = NotCalled
    /\ filtered_signal = NotCalled
    /\ sr_response = NotCalled
    /\ levels = <<>>
    /\ clustered = <<>>
    /\ vote_totals = [buy |-> 0, sell |-> 0]
    /\ decision = NotCalled

NextFlat == GenerateSignals \/ ApplyRiskFilters

SpecFlat == InitFlat /\ [][NextFlat]_vars

-----------------------------------------------------------------------------
(* Properties.                                                             *)

Returned(outcome) == outcome.called /\ ~outcome.raised

Contains(seq, x) == \E i \in 1..Len(seq) : seq[i] = x

\* the series apply_risk_filters was called with
RiskSeries == Handed(LastN(market_data, filtered_signal.bars), request.order)

\* C1: the decision generate_signals returns, and the decision
\* apply_risk_filters returns for it, both have 0 <= strength <= 1.
C1_StrengthInUnitInterval ==
    /\ Returned(final_signal) =>
           /\ final_signal.value.strength >= 0
           /\ final_signal.value.strength <= ONE
    /\ Returned(filtered_signal) =>
           /\ filtered_signal.value.strength >= 0
           /\ filtered_signal.value.strength <= ONE

\* a BUY or SELL went through the risk filter with its strength reduced
C1_Witness ==
    /\ Returned(final_signal) /\ Returned(filtered_signal)
    /\ final_signal.value.signal_type # "HOLD"
    /\ filtered_signal.value.signal_type = final_signal.value.signal_type
    /\ filtered_signal.value.strength > 0
    /\ filtered_signal.value.strength < final_signal.value.strength

\* C2 as stated: BUY with strength min(1, buy_total) exactly when
\* buy_total > sell_total and buy_total > 0.3, SELL symmetrically, otherwise
\* HOLD with strength 0.
C2_DecisionRuleUnrounded ==
    decision.called =>
        LET b == vote_totals.buy
            s == vote_totals.sell
        IN  IF b > s /\ 10 * b > 3 * ONE
            THEN decision.signal_type = "BUY" /\ decision.strength = Min(ONE, b)
            ELSE IF s > b /\ 10 * s > 3 * ONE
            THEN decision.signal_type = "SELL" /\ decision.strength = Min(ONE, s)
            ELSE decision.signal_type = "HOLD" /\ decision.strength = 0

\* C2, amended: the same rule, with the returned strength being
\* min(1, total) rounded to three decimals.
C2_DecisionRuleRounded ==
    decision.called =>
        LET b == vote_totals.buy
            s == vote_totals.sell
        IN  IF b > s /\ 10 * b > 3 * ONE
            THEN /\ decision.signal_type = "BUY"
                 /\ decision.strength = Round3(Min(ONE, b))
            ELSE IF s > b /\ 10 * s > 3 * ONE
            THEN /\ decision.signal_type = "SELL"
                 /\ decision.strength = Round3(Min(ONE, s))
            ELSE decision.signal_type = "HOLD" /\ decision.strength = 0

\* the example of the claim: buy 0.25, sell 0.1 gives HOLD
C2_Witness ==
    /\ decision.called
    /\ 4 * vote_totals.buy = ONE /\ 10 * vote_totals.sell = ONE
    /\ decision.signal_type = "HOLD"

\* the levels calculate_support_resistance chose from
SrCandidates ==
    CandidateLevels(Handed(market_data, request.order), request.lookback_periods)

\* a candidate below the price and above a returned support is returned
NoNearerSupportOmitted(returned, cands, cp) ==
    \A k \in 1..Len(cands) :
        (QLess(cands[k], cp) /\ \E i \in 1..Len(returned) : QLess(returned[i], cands[k]))
            => Contains(returned, cands[k])

\* a candidate above the price and below a returned resistance is returned
NoNearerResistanceOmitted(returned, cands, cp) ==
    \A k \in 1..Len(cands) :
        (QLess(cp, cands[k]) /\ \E i \in 1..Len(returned) : QLess(cands[k], returned[i]))
            => Contains(returned, cands[k])

\* C3: at most 3 supports and 3 resistances; supports strictly below and
\* resistances strictly above the returned current_price; supports
\* descending, resistances ascending; no candidate on the right side nearer
\* to the current price than a returned level is left out.
C3_LevelsSelected ==
    (sr_response.called /\ Len(market_data) > 0) =>
        LET sup == sr_response.support_levels
            res == sr_response.resistance_levels
            cp == QInt(sr_response.current_price)
        IN  /\ Len(sup) <= 3 /\ Len(res) <= 3
            /\ \A i \in 1..Len(sup) : QLess(sup[i], cp)
            /\ \A i \in 1..Len(res) : QLess(cp, res[i])
            /\ \A i \in 1..Len(sup), j \in 1..Len(sup) : i < j => QLeq(sup[j], sup[i])
            /\ \A i \in 1..Len(res), j \in 1..Len(res) : i < j => QLeq(res[i], res[j])
            /\ NoNearerSupportOmitted(sup, SrCandidates.support, cp)
            /\ NoNearerResistanceOmitted(res, SrCandidates.resistance, cp)

\* three supports are returned and a fourth candidate below the price is not
C3_Witness ==
    /\ sr_response.called /\ Len(market_data) > 0
    /\ Len(sr_response.support_levels) = 3
    /\ Len(sr_response.resistance_levels) >= 1
    /\ \E k \in 1..Len(SrCandidates.support) :
           /\ QLess(SrCandidates.support[k], QInt(sr_response.current_price))
           /\ ~Contains(sr_response.support_levels, SrCandidates.support[k])

NoTargets(d) == d.price_target = <<>> /\ d.stop_loss = <<>>

\* C4 as stated: every HOLD decision, from generate_signals or from
\* apply_risk_filters, has price_target = None and stop_loss = None.
C4_HoldHasNoTargets ==
    /\ (Returned(final_signal) /\ final_signal.value.signal_type = "HOLD")
           => NoTargets(final_signal.value)
    /\ (Returned(filtered_signal) /\ filtered_signal.value.signal_type = "HOLD")
           => NoTargets(filtered_signal.value)

\* C4, amended: a HOLD decision of generate_signals has no price_target and
\* no stop_loss; apply_risk_filters returns the price_target and stop_loss
\* of the decision it was given, also when it demotes the decision to HOLD.
C4_HoldTargetsKept ==
    /\ (Returned(final_signal) /\ final_signal.value.signal_type = "HOLD")
           => NoTargets(final_signal.value)
    /\ Returned(filtered_signal) =>
           /\ filtered_signal.value.price_target = final_signal.value.price_target
           /\ filtered_signal.value.stop_loss = final_signal.value.stop_loss

\* the risk filter demoted a BUY or SELL to HOLD
C4_Witness ==
    /\ Returned(filtered_signal)
    /\ final_signal.value.signal_type # "HOLD"
    /\ filtered_signal.value.signal_type = "HOLD"
    /\ filtered_signal.value.price_target # <<>>

\* the decision given to the risk filter is BUY or SELL and its ratio,
\* which the filter computes, is below 1.5
PoorRatioGiven ==
    /\ Returned(filtered_signal) /\ Len(RiskSeries) > 0
    /\ final_signal.value.signal_type # "HOLD"
    /\ LET rr == RiskReward(final_signal.value, RiskSeries[Len(RiskSeries)].close_price)
       IN  rr # <<>> /\ 2 * rr[1].gain < 3 * rr[1].loss

\* C5 as stated: with a ratio below 1.5 the returned strength is exactly
\* half the strength before the filter and the reasoning has the note.
C5_HalvedWithNote ==
    PoorRatioGiven =>
        /\ 2 * filtered_signal.value.strength = final_signal.value.strength
        /\ Contains(filtered_signal.value.reasoning, "(Poor risk-reward ratio)")

\* C5, amended: with a ratio below 1.5 the strength left by the volatility
\* step is halved; if the half is below 0.2 the decision comes back as HOLD
\* with strength 0 and the reasoning replaced, otherwise the returned
\* strength is that half and the reasoning has the note.
C5_HalvedAfterVolatility ==
    PoorRatioGiven =>
        LET half == VolatilityStep(final_signal.value, RiskSeries).strength \div 2
        IN  IF 5 * half < ONE
            THEN /\ filtered_signal.value.signal_type = "HOLD"
                 /\ filtered_signal.value.strength = 0
                 /\ filtered_signal.value.reasoning
                        = <<"Signal filtered out due to risk management rules">>
            ELSE /\ filtered_signal.value.signal_type = final_signal.value.signal_type
                 /\ filtered_signal.value.strength = half
                 /\ Contains(filtered_signal.value.reasoning, "(Poor risk-reward ratio)")

\* the case the claim describes: exactly halved, and the note is there
C5_Witness ==
    /\ PoorRatioGiven
    /\ filtered_signal.value.strength > 0
    /\ 2 * filtered_signal.value.strength = final_signal.value.strength
    /\ Contains(filtered_signal.value.reasoning, "(Poor risk-reward ratio)")

\* C6: clustering what _cluster_levels returned gives the same list again,
\* and any two consecutive cluster means differ by more than 2% of the
\* lower one.
C6_ClusterIdempotent ==
    /\ Len(clustered) = 2 => clustered[2] = clustered[1]
    /\ Len(clustered) >= 1 =>
           \A i \in 1..(Len(clustered[1]) - 1) :
               /\ QLess(clustered[1][i], clustered[1][i + 1])
               /\ ~WithinTolerance(clustered[1][i + 1], clustered[1][i])

\* three levels, two of them merged into one mean, clustered twice
C6_Witness ==
    /\ Len(clustered) = 2
    /\ Len(levels) = 3
    /\ Len(clustered[1]) = 2
    /\ \E i \in 1..2 : clustered[1][i].d # 1

\* C7: with fewer than 20 bars generate_signals raises the insufficient-data
\* error and returns no decision; with 20 bars or more it returns a decision.
C7_InsufficientDataRaised ==
    final_signal.called =>
        IF Len(market_data) < 20
        THEN /\ final_signal.raised
             /\ final_signal.error = "Insufficient data for signal generation"
             /\ "value" \notin DOMAIN final_signal
        ELSE /\ ~final_signal.raised
             /\ final_signal.value.signal_type \in {"BUY", "SELL", "HOLD"}

\* generate_signals was called with 19 bars and raised
C7_Witness ==
    /\ final_signal.called
    /\ Len(market_data) = 19
    /\ final_signal.raised

\* C8 as stated: a series that is not strictly ascending by timestamp makes
\* generate_signals raise, and the current price of the support/resistance
\* levels is the close of the latest bar, the one the indicators and the
\* price targets use.
C8_InvalidSeriesSurfaced ==
    final_signal.called =>
        /\ (request.order = "desc" /\ Len(market_data) >= 2) => final_signal.raised
        /\ ~final_signal.raised =>
               final_signal.value.current_price
                   = market_data[Len(market_data)].close_price

\* C9: apply_risk_filters never raises; with 1 to 19 bars the strength is
\* not scaled for volatility, and the position size, the risk-reward ratio
\* and the final strength check are applied.
C9_RiskFilterNeverRaises ==
    filtered_signal.called =>
        /\ ~filtered_signal.raised
        /\ filtered_signal.bars \in 1..19 =>
               LET given == final_signal.value
                   got == filtered_signal.value
                   rr == RiskReward(given, RiskSeries[Len(RiskSeries)].close_price)
                   poor == rr # <<>> /\ 2 * rr[1].gain < 3 * rr[1].loss
                   s == IF poor THEN given.strength \div 2 ELSE given.strength
               IN  /\ ~Contains(got.reasoning, "(Adjusted for high volatility)")
                   /\ got.recommended_position_size
                          = RoundHalfEven(Min(ONE, given.strength) * 100, ONE)
                   /\ ("risk_reward_ratio" \in DOMAIN got) <=> (rr # <<>>)
                   /\ got.strength = IF 5 * s < ONE THEN 0 ELSE s
                   /\ got.signal_type = IF 5 * s < ONE THEN "HOLD" ELSE given.signal_type

\* a BUY or SELL of a series whose last 20 closes are volatile went through
\* the filter with 19 bars, and the ratio was computed
C9_Witness ==
    /\ Returned(filtered_signal)
    /\ filtered_signal.bars = 19
    /\ final_signal.value.signal_type # "HOLD"
    /\ HighVolatility(ClosesOf(LastN(market_data, volatility_window)))
    /\ "risk_reward_ratio" \in DOMAIN filtered_signal.value

EngineCalled == ml_prediction.called /\ ml_prediction.source = "engine"

-----------------------------------------------------------------------------
(* The trend fallback of generate_prediction.                              *)

\* the engine returned an estimate and no model contributed to it
FallbackReturned ==
    /\ EngineCalled /\ ~ml_prediction.raised
    /\ ml_prediction.models = {}

\* the first and the last of the last five closes of the stored series
TrendFirst == ClosesOf(market_data)[Len(market_data) - 4]
TrendLast == ClosesOf(market_data)[Len(market_data)]

\* current_close * (1 + 0.1 * trend) as a fraction of cents:
\* FallbackNum / FallbackDen
FallbackNum == TrendLast * (10 * TrendFirst + TrendLast - TrendFirst)
FallbackDen == 10 * TrendFirst

Sign(x) == IF x > 0 THEN 1 ELSE IF x < 0 THEN 0 - 1 ELSE 0

-----------------------------------------------------------------------------
(* The performance record.                                                 *)

\* what is stored for a (symbol, model) key: <<>> when nothing is
Stored(perf, key) ==
    IF key[1] \in DOMAIN perf /\ key[2] \in DOMAIN perf[key[1]]
    THEN <<perf[key[1]][key[2]]>>
    ELSE <<>>

\* every call made for the key reported a positive actual price
AllPositive(key) ==
    \A i \in 1..Len(update_log[key]) : update_log[key][i].actual_price > 0

\* C12: after k update calls with positive actual price for a key, run one
\* at a time and nothing else writing the store, the key's record holds
\* the latest min(k, 100) entries in call order, 'predictions' and
\* 'accuracy_scores' have that length, accuracy_scores[i] is
\* predictions[i].accuracy, and every accuracy is in [0, 1].
C12_RecordHoldsLatest ==
    \A key \in Keys :
        LET log == update_log[key]
            k == Len(log)
            n == Min(k, 100)
        IN  (trainings = 0 /\ k > 0 /\ AllPositive(key)) =>
                /\ Stored(model_performance, key) # <<>>
                /\ LET record == Stored(model_performance, key)[1]
                   IN  /\ Len(record.predictions) = n
                       /\ Len(record.accuracy_scores) = n
                       /\ \A i \in 1..n :
                              LET entry == record.predictions[i]
                                  call == log[k - n + i]
                              IN  /\ entry.predicted = call.predicted_price
                                  /\ entry.actual = call.actual_price
                                  /\ entry.timestamp = call.now
                                  /\ record.accuracy_scores[i] = entry.accuracy
                                  /\ QLeq(QInt(0), entry.accuracy)
                                  /\ QLeq(entry.accuracy, QInt(1))

\* more than 100 calls were made for a key: its record holds 100 entries,
\* the earliest calls are gone, and an accuracy was cut off at 0
C12_Witness ==
    /\ trainings = 0
    /\ Len(update_log[HotKey]) > 100
    /\ AllPositive(HotKey)
    /\ Stored(model_performance, HotKey) # <<>>
    /\ LET record == Stored(model_performance, HotKey)[1]
       IN  /\ Len(record.predictions) = 100
           /\ record.predictions[1].timestamp = Len(update_log[HotKey]) - 99
           /\ \E i \in 1..100 : record.accuracy_scores[i] = QInt(0)

C13_RecordLostToTraining ==
    /\ Len(update_log[HotKey]) > 0 /\ AllPositive(HotKey)
    /\ Stored(model_performance, HotKey) = <<>>

\* after train_models, an update for a trained model's name appended
\* nothing, and the statistics of the symbol are empty
C13_UpdateDropped ==
    /\ Len(update_log[<<"AAPL", "lstm_short">>]) > 0
    /\ AllPositive(<<"AAPL", "lstm_short">>)
    /\ Stored(model_performance, <<"AAPL", "lstm_short">>) # <<>>
    /\ "predictions" \notin DOMAIN Stored(model_performance, <<"AAPL", "lstm_short">>)[1]
    /\ performance_stats.called /\ performance_stats.symbol = "AAPL"
    /\ performance_stats.value = EmptyDict

-----------------------------------------------------------------------------
(* Interleaved updates.                                                    *)

BothReturned == \A t \in Callers : threads[t].pc \in {"done", "raised"}

\* the record bound to the key when the calls have returned
FinalRecord == records[dicts[symbol_ref]]

\* the caller's entry is in the stored 'predictions'
Kept(t) ==
    \E i \in 1..Len(FinalRecord.predictions) :
        FinalRecord.predictions[i].predicted = CallerReports[t].predicted

Aligned(record) ==
    /\ Len(record.predictions) = Len(record.accuracy_scores)
    /\ Len(record.predictions) <= 100
    /\ \A i \in 1..Len(record.predictions) :
           record.accuracy_scores[i] = record.predictions[i].accuracy

\* how many entries the key's record had before the two calls: the
\* ordinal of the latest entry that is not theirs
SeedCount ==
    LET old == {FinalRecord.predictions[i].timestamp :
                   i \in 1..Len(FinalRecord.predictions)} \cap 1..100
    IN  IF old = {} THEN 0 ELSE CHOOSE n \in old : \A m \in old : m <= n

\* C14: two update calls for one key that run one after the other leave a
\* record with both entries after the earlier ones, min(n + 2, 100)
\* entries in all, the lists of equal length and each accuracy beside its
\* entry; only interleaved calls leave a record that lost an entry or
\* whose lists differ in length.
C14_ExclusiveAccessKeepsRecord ==
    (BothReturned /\ ~overlapped) =>
        /\ \A t \in Callers : threads[t].pc = "done" /\ Kept(t)
        /\ Aligned(FinalRecord)
        /\ Len(FinalRecord.predictions) = Min(SeedCount + 2, 100)
        /\ LET last == FinalRecord.predictions[Len(FinalRecord.predictions)]
               before == FinalRecord.predictions[Len(FinalRecord.predictions) - 1]
           IN  before.timestamp < last.timestamp

\* two interleaved calls have returned and the entry of one is lost
C14_Witness ==
    /\ BothReturned /\ overlapped
    /\ \A t \in Callers : threads[t].pc = "done"
    /\ \E t \in Callers : ~Kept(t)

\* two interleaved calls have returned and the lists differ in length
C14_ListsDiffer ==
    /\ BothReturned /\ overlapped
    /\ Len(FinalRecord.predictions) # Len(FinalRecord.accuracy_scores)

\* two interleaved calls have returned and one of them raised KeyError
C14_CallRaised ==
    /\ BothReturned
    /\ \E t \in Callers : threads[t].pc = "raised"

\* the record SpecInterleaved starts from is the one update calls made one
\* at a time leave
SeededRecordIsReached ==
    (feed = "clean" /\ trainings = 0 /\ Len(update_log[HotKey]) \in 1..100) =>
        Stored(model_performance, HotKey) = <<SeededRecord(Len(update_log[HotKey]))>>

-----------------------------------------------------------------------------
(* The indicators at the boundaries of their ratios.                       *)

\* the closes of the window that ends at position t
WindowCloses(t) == SubSeq(ClosesOf(market_data), Max(1, t - 14), t)

Rising(closes) == \A i \in 2..Len(closes) : closes[i] >= closes[i - 1]
Constant(closes) == \A i \in 2..Len(closes) : closes[i] = closes[i - 1]

\* highest high equals lowest low over the 14 bars that end at position t
ZeroRange(t) ==
    \A i, j \in (t - 13)..t : market_data[i].high_price = market_data[j].low_price

\* C15 as stated: at every position from the 14th on rsi returns a defined
\* value in [0, 100]: 100 when the window has gains and no loss, 50 when
\* it has neither.
C15_RsiDefined ==
    indicators["rsi"].called =>
        \A t \in 14..Len(market_data) :
            LET r == indicators["rsi"].value[t]
            IN  /\ r # <<>>
                /\ QLeq(QInt(0), r[1]) /\ QLeq(r[1], QInt(100))
                /\ (Rising(WindowCloses(t)) /\ ~Constant(WindowCloses(t)))
                       => r[1] = QInt(100)
                /\ Constant(WindowCloses(t)) => r[1] = QInt(50)

\* what rsi does return: NaN exactly where the window has neither gain nor
\* loss, else a value in [0, 100], 100 where the window has no loss
C15_RsiNaNOnConstantWindow ==
    indicators["rsi"].called =>
        \A t \in 14..Len(market_data) :
            LET r == indicators["rsi"].value[t]
            IN  IF Constant(WindowCloses(t)) THEN r = <<>>
                ELSE /\ r # <<>>
                     /\ QLeq(QInt(0), r[1]) /\ QLeq(r[1], QInt(100))
                     /\ Rising(WindowCloses(t)) => r[1] = QInt(100)

\* rsi was computed for a series whose latest window has no gain and no
\* loss, and is NaN there
C15_RsiNaNReached ==
    /\ indicators["rsi"].called
    /\ Len(market_data) >= 14
    /\ Constant(WindowCloses(Len(market_data)))
    /\ indicators["rsi"].value[Len(market_data)] = <<>>

\* C16 as stated: over a filled window whose highest high equals its
\* lowest low, %K is 50 and Williams %R is a defined value.
C16_ZeroRangeGuarded ==
    \A t \in 14..Len(market_data) :
        ZeroRange(t) =>
            /\ indicators["stochastic_oscillator"].called
                   => indicators["stochastic_oscillator"].value.k_percent[t] = <<QInt(50)>>
            /\ indicators["williams_r"].called
                   => indicators["williams_r"].value[t] # <<>>

\* what the two return over such a window: NaN, and %D is NaN as long as
\* one of its three %K values is
C16_ZeroRangeIsNaN ==
    \A t \in 14..Len(market_data) :
        ZeroRange(t) =>
            /\ indicators["stochastic_oscillator"].called
                   => /\ indicators["stochastic_oscillator"].value.k_percent[t] = <<>>
                      /\ indicators["stochastic_oscillator"].value.d_percent[t] = <<>>
            /\ indicators["williams_r"].called
                   => indicators["williams_r"].value[t] = <<>>

\* both were computed for a series with a window without range
C16_ZeroRangeReached ==
    /\ indicators["stochastic_oscillator"].called
    /\ indicators["williams_r"].called
    /\ \E t \in 14..Len(market_data) : ZeroRange(t)

-----------------------------------------------------------------------------
(* The recommended position size.                                          *)

\* apply_risk_filters ran through (its except branch returns the decision
\* without a position size)
Sized == Returned(filtered_signal)
         /\ "recommended_position_size" \in DOMAIN filtered_signal.value

\* the strength after the volatility step
SizedStrength == VolatilityStep(final_signal.value, RiskSeries).strength

\* C17 as stated: recommended_position_size is in [0, max_position_size]
\* and is exactly min(max_position_size, s * max_position_size), s the
\* strength after the volatility step.
C17_PositionSizeExact ==
    Sized =>
        /\ filtered_signal.value.recommended_position_size \in 0..max_position_size
        /\ filtered_signal.value.recommended_position_size * ONE
               = Min(ONE, SizedStrength) * max_position_size

\* C17, amended: recommended_position_size is in [0, max_position_size]
\* and is min(max_position_size, s * max_position_size) rounded to three
\* decimals, s the strength after the volatility step, whatever the
\* risk-reward penalty and the veto make of the returned strength.
C17_PositionSizeRounded ==
    Sized =>
        /\ filtered_signal.value.recommended_position_size \in 0..max_position_size
        /\ 2 * Abs(filtered_signal.value.recommended_position_size * ONE
                   - Min(ONE, SizedStrength) * max_position_size) <= ONE

\* a decision was sized before the penalty halved its strength: the size
\* is that of the unhalved strength, and rounding moved it
C17_Witness ==
    /\ Sized
    /\ SizedStrength > 0
    /\ filtered_signal.value.strength > 0
    /\ 2 * filtered_signal.value.strength = SizedStrength
    /\ filtered_signal.value.recommended_position_size * ONE
           # Min(ONE, SizedStrength) * max_position_size
    /\ 2 * Abs(filtered_signal.value.recommended_position_size * ONE
               - Min(ONE, filtered_signal.value.strength) * max_position_size) > ONE

-----------------------------------------------------------------------------
(* The fusion of the votes.                                                *)

\* the votes a returned decision carries
Fused == final_signal.value.technical_signals

\* weight * strength of a kind if it votes `side`, else 0
Weighted(weight, kind, side) ==
    IF SignalKey(kind) \in DOMAIN Fused /\ Fused[SignalKey(kind)] = side
    THEN (weight * Fused[StrengthKey(kind)]) \div 100
    ELSE 0

\* the totals before the boost, from the table of the claim
ExpectedTotal(side) ==
    Weighted(20, "rsi", side) + Weighted(25, "macd", side) + Weighted(20, "ma", side)
    + Weighted(15, "bb", side) + Weighted(20, "ml", side)

\* 0.1 * volume_strength if the volume confirms, else 0
ExpectedBoost ==
    IF Fused.volume_confirmation THEN Fused.volume_strength \div 10 ELSE 0

\* C18: every strength is in [0, 1]; the totals before the boost are the
\* sums of weight * strength over the BUY voters and over the SELL voters
\* of the five kinds, a HOLD vote and a missing kind adding to neither;
\* together they are at most 1.0, and at most 1.1 after the boost, which
\* one of them receives.  The totals are seen as they are returned,
\* rounded to three decimals.
C18_TotalsAreWeightedVotes ==
    Returned(final_signal) =>
        /\ \A k \in 1..Len(SignalKinds) :
               SignalKey(SignalKinds[k]) \in DOMAIN Fused =>
                   /\ Fused[StrengthKey(SignalKinds[k])] \in 0..ONE
                   /\ Fused[SignalKey(SignalKinds[k])] \in {"BUY", "SELL", "HOLD"}
        /\ ExpectedTotal("BUY") + ExpectedTotal("SELL") <= ONE
        /\ ExpectedBoost <= ONE \div 10
        /\ \/ /\ final_signal.value.buy_strength = Round3(ExpectedTotal("BUY") + ExpectedBoost)
              /\ final_signal.value.sell_strength = Round3(ExpectedTotal("SELL"))
           \/ /\ final_signal.value.buy_strength = Round3(ExpectedTotal("BUY"))
              /\ final_signal.value.sell_strength = Round3(ExpectedTotal("SELL") + ExpectedBoost)
        /\ final_signal.value.buy_strength + final_signal.value.sell_strength
               <= (11 * ONE) \div 10

\* a decision made of votes on both sides, a HOLD vote and a missing kind
C18_Witness ==
    /\ Returned(final_signal)
    /\ ExpectedTotal("BUY") > 0
    /\ ExpectedTotal("SELL") > 0
    /\ \E k \in 1..Len(SignalKinds) :
           /\ SignalKey(SignalKinds[k]) \in DOMAIN Fused
           /\ Fused[SignalKey(SignalKinds[k])] = "HOLD"
    /\ \E k \in 1..Len(SignalKinds) : SignalKey(SignalKinds[k]) \notin DOMAIN Fused

\* C19 as stated: a confirmed volume adds its boost to the total that is
\* higher before the boost and to that one alone, so the larger side
\* stays the larger, and equal totals stay a HOLD.
C19_BoostKeepsOrder ==
    (Returned(final_signal) /\ Fused.volume_confirmation) =>
        LET buy0 == ExpectedTotal("BUY")
            sell0 == ExpectedTotal("SELL")
        IN  /\ buy0 > sell0 =>
                   /\ final_signal.value.buy_strength = Round3(buy0 + ExpectedBoost)
                   /\ final_signal.value.sell_strength = Round3(sell0)
                   /\ final_signal.value.signal_type # "SELL"
            /\ sell0 > buy0 =>
                   /\ final_signal.value.sell_strength = Round3(sell0 + ExpectedBoost)
                   /\ final_signal.value.buy_strength = Round3(buy0)
                   /\ final_signal.value.signal_type # "BUY"
            /\ buy0 = sell0 => final_signal.value.signal_type = "HOLD"

\* what the code does with equal totals: the boost goes to the SELL total,
\* and the decision is SELL if that passes 0.3
C19_TieGoesToSell ==
    (Returned(final_signal) /\ Fused.volume_confirmation
        /\ ExpectedTotal("BUY") = ExpectedTotal("SELL")) =>
        /\ final_signal.value.buy_strength = Round3(ExpectedTotal("BUY"))
        /\ final_signal.value.sell_strength = Round3(ExpectedTotal("SELL") + ExpectedBoost)
        /\ final_signal.value.signal_type
               = IF 10 * (ExpectedTotal("SELL") + ExpectedBoost) > 3 * ONE
                 THEN "SELL" ELSE "HOLD"

\* equal totals were made a SELL by the boost
C19_TieMadeSell ==
    /\ Returned(final_signal) /\ Fused.volume_confirmation
    /\ ExpectedTotal("BUY") = ExpectedTotal("SELL")
    /\ final_signal.value.signal_type = "SELL"

-----------------------------------------------------------------------------
(* The MACD vote.                                                          *)

\* the two MACD lines of the request's series, as generate_signals sees it
MacdLines == macd(ClosesOf(SortByTimestamp(market_data)))

\* the vote and strength that the two lines call for
MacdVoteAgrees ==
    LET m == MacdLines
        gap == Abs(m.macd - m.signal)
    IN  /\ "macd_signal" \in DOMAIN Fused
        /\ Fused.macd_signal = (IF m.macd > m.signal THEN "BUY" ELSE "SELL")
        /\ m.signal = 0 => Fused.macd_strength = ONE \div 2
        /\ (m.signal # 0 /\ gap >= Abs(m.signal)) => Fused.macd_strength = ONE
        /\ (m.signal # 0 /\ gap < Abs(m.signal)) =>
               Fused.macd_strength = StrengthOf(gap, Abs(m.signal))

\* C20: the MACD vote of a returned decision is BUY exactly when the macd
\* line is above the signal line and SELL otherwise, never HOLD; its
\* strength is min(1, |macd - signal| / |signal|), and 0.5 when the signal
\* line is 0.  Stated of the decision as generate_signals returns it; the
\* risk filters that follow change neither the series nor the decision.
C20_MacdVote ==
    (Returned(final_signal) /\ ~filtered_signal.called) => MacdVoteAgrees

\* equal lines, both 0: the vote is SELL with strength 0.5
C20_Witness ==
    /\ Returned(final_signal)
    /\ MacdLines.macd = MacdLines.signal
    /\ MacdLines.signal = 0
    /\ Fused.macd_signal = "SELL"
    /\ Fused.macd_strength = ONE \div 2

\* a BUY vote with a strength below 1
C20_BuyBelowOne ==
    /\ Returned(final_signal)
    /\ MacdLines.macd > MacdLines.signal
    /\ Fused.macd_signal = "BUY"
    /\ Fused.macd_strength \in 1..(ONE - 1)

\* a SELL vote of lines that differ
C20_SellBelow ==
    /\ Returned(final_signal)
    /\ MacdLines.macd < MacdLines.signal
    /\ Fused.macd_signal = "SELL"
    /\ Fused.macd_strength > 0

-----------------------------------------------------------------------------
(* The vote of a supplied prediction.                                      *)

\* a prediction was handed to generate_signals
Supplied == ml_prediction.called /\ ~ml_prediction.raised

\* predicted_price - current_price
PredictedMove == ml_prediction.value.predicted_price - CurrentClose

\* the prediction passes the gate of line 260
Gated ==
    /\ ml_prediction.value.predicted_price > 0
    /\ ml_prediction.value.confidence_score > 500

\* min(1, confidence * |pct_move| * 10)
PredictedStrength ==
    StrengthOf(ml_prediction.value.confidence_score * Abs(PredictedMove),
               100 * CurrentClose)

\* C21: a supplied prediction votes only with a confidence above 0.5 and a
\* positive predicted price; then BUY for a move above 2%, SELL for a move
\* below -2%, each with strength min(1, confidence * |move| * 10), and
\* HOLD with strength 0 otherwise, a move of exactly 2% included.
C21_PredictionVote ==
    (Returned(final_signal) /\ Supplied) =>
        /\ ("ml_signal" \in DOMAIN Fused) <=> Gated
        /\ Gated =>
               /\ 100 * PredictedMove > 2 * CurrentClose =>
                      /\ Fused.ml_signal = "BUY"
                      /\ Fused.ml_strength = PredictedStrength
               /\ 100 * PredictedMove < 0 - 2 * CurrentClose =>
                      /\ Fused.ml_signal = "SELL"
                      /\ Fused.ml_strength = PredictedStrength
               /\ (/\ 100 * PredictedMove <= 2 * CurrentClose
                   /\ 100 * PredictedMove >= 0 - 2 * CurrentClose) =>
                      /\ Fused.ml_signal = "HOLD"
                      /\ Fused.ml_strength = 0

\* a confident prediction of a move of exactly 2% up: HOLD with strength 0
C21_Witness ==
    /\ Returned(final_signal) /\ Supplied /\ Gated
    /\ 100 * PredictedMove = 2 * CurrentClose
    /\ Fused.ml_signal = "HOLD"
    /\ Fused.ml_strength = 0

\* a BUY vote with a strength below 1, a SELL vote with strength 1
C21_BuyBelowOne ==
    /\ Returned(final_signal) /\ Supplied
    /\ "ml_signal" \in DOMAIN Fused
    /\ Fused.ml_signal = "BUY"
    /\ Fused.ml_strength \in 1..(ONE - 1)

C21_SellAtOne ==
    /\ Returned(final_signal) /\ Supplied
    /\ "ml_signal" \in DOMAIN Fused
    /\ Fused.ml_signal = "SELL"
    /\ Fused.ml_strength = ONE

\* a prediction at confidence 0.5 exactly, or without a positive price,
\* gives no vote
C21_NoVote ==
    /\ Returned(final_signal) /\ Supplied
    /\ ml_prediction.value.confidence_score = 500
    /\ ml_prediction.value.predicted_price > 0
    /\ "ml_signal" \notin DOMAIN Fused

-----------------------------------------------------------------------------
(* Price target and stop loss.                                             *)

\* the strength the targets are computed from: min(1, total of the side
\* decided), not yet rounded
DecidedStrength ==
    Min(ONE, ExpectedTotal(final_signal.value.signal_type) + ExpectedBoost)

\* <<q, r>>: current price * (base + slope * strength) / 100 is
\* q + r / (100 * ONE) cents
PctOfClose(base, slope) ==
    DivMod(CurrentClose, base * ONE + slope * DecidedStrength, 100 * ONE)

\* t is current price * (1 + (base + slope * strength) / 100) to the cent
IsPctAbove(t, base, slope) ==
    LET p == PctOfClose(base, slope)
    IN  /\ t \in {CurrentClose + p[1], CurrentClose + p[1] + 1}
        /\ 2 * p[2] < 100 * ONE => t = CurrentClose + p[1]
        /\ 2 * p[2] > 100 * ONE => t = CurrentClose + p[1] + 1

\* t is current price * (1 - (base + slope * strength) / 100) to the cent
IsPctBelow(t, base, slope) ==
    LET p == PctOfClose(base, slope)
    IN  /\ t \in {CurrentClose - p[1], CurrentClose - p[1] - 1}
        /\ 2 * p[2] < 100 * ONE => t = CurrentClose - p[1]
        /\ 2 * p[2] > 100 * ONE => t = CurrentClose - p[1] - 1

\* t is the first level of the list to the cent, and no level of the list
\* is nearer to the price the list was selected for
IsFirstLevel(t, lv) ==
    /\ 2 * Abs(t * lv[1].d - lv[1].n) <= lv[1].d
    /\ \A i \in 1..Len(lv) :
           Abs(lv[1].n - final_signal.value.current_price * lv[1].d) * lv[i].d
               <= Abs(lv[i].n - final_signal.value.current_price * lv[i].d) * lv[1].d

\* C22: for BUY the target is the first resistance level if there is one,
\* else price * (1 + 0.01 + 0.04 * strength), and the stop the first
\* support level if there is one, else price * (1 - (0.02 + 0.03 *
\* strength)); for SELL the target comes from the supports or price *
\* (1 - (0.01 + 0.04 * strength)) and the stop from the resistances or
\* price * (1 + 0.02 + 0.03 * strength); both rounded to two decimals.
C22_PriceTargets ==
    (Returned(final_signal) /\ final_signal.value.signal_type \in {"BUY", "SELL"}) =>
        LET v == final_signal.value
            above == IF v.signal_type = "BUY" THEN v.price_target ELSE v.stop_loss
            below == IF v.signal_type = "BUY" THEN v.stop_loss ELSE v.price_target
            buying == v.signal_type = "BUY"
        IN  /\ Len(above) = 1 /\ Len(below) = 1
            /\ v.resistance_levels # <<>> => IsFirstLevel(above[1], v.resistance_levels)
            /\ v.support_levels # <<>> => IsFirstLevel(below[1], v.support_levels)
            /\ v.resistance_levels = <<>> =>
                   IF buying THEN IsPctAbove(above[1], 1, 4) ELSE IsPctAbove(above[1], 2, 3)
            /\ v.support_levels = <<>> =>
                   IF buying THEN IsPctBelow(below[1], 2, 3) ELSE IsPctBelow(below[1], 1, 4)

\* a BUY with its target from the formula and its stop from a support
\* level, out of several
C22_Witness ==
    /\ Returned(final_signal)
    /\ final_signal.value.signal_type = "BUY"
    /\ final_signal.value.resistance_levels = <<>>
    /\ Len(final_signal.value.support_levels) >= 2

\* the other cases: a SELL with its target from the formula, a decision
\* with levels on both sides, one with levels on neither
C22_SellFromFormula ==
    /\ Returned(final_signal)
    /\ final_signal.value.signal_type = "SELL"
    /\ final_signal.value.support_levels = <<>>
    /\ final_signal.value.resistance_levels # <<>>

C22_LevelsOnBothSides ==
    /\ Returned(final_signal)
    /\ final_signal.value.signal_type \in {"BUY", "SELL"}
    /\ Len(final_signal.value.support_levels) >= 2
    /\ Len(final_signal.value.resistance_levels) >= 2

C22_NoLevels ==
    /\ Returned(final_signal)
    /\ final_signal.value.signal_type \in {"BUY", "SELL"}
    /\ final_signal.value.support_levels = <<>>
    /\ final_signal.value.resistance_levels = <<>>

-----------------------------------------------------------------------------
(* The final strength check of the risk filter.                            *)

\* the ratio is computed and is below 1.5
RatioIsPoor ==
    LET rr == RiskReward(final_signal.value, RiskSeries[Len(RiskSeries)].close_price)
    IN  rr # <<>> /\ 2 * rr[1].gain < 3 * rr[1].loss

\* the strength after the volatility and the risk-reward steps
StrengthAfterSteps ==
    IF RatioIsPoor THEN SizedStrength \div 2 ELSE SizedStrength

\* the reasoning begins with the clauses of the decision given
KeepsReasoning ==
    /\ Len(filtered_signal.value.reasoning) >= Len(final_signal.value.reasoning)
    /\ SubSeq(filtered_signal.value.reasoning, 1, Len(final_signal.value.reasoning))
           = final_signal.value.reasoning

\* C23: where apply_risk_filters does not fail, a strength below 0.2 after
\* the volatility and risk-reward steps gives HOLD with strength 0 and
\* the reasoning replaced by the message, as every HOLD with strength 0
\* given does; otherwise the signal type is the one given and the strength
\* returned is at least 0.2.  So the decision returned is HOLD exactly if
\* its strength is 0.
C23_VetoBelowFifth ==
    Sized =>
        /\ 5 * StrengthAfterSteps < ONE =>
               /\ filtered_signal.value.signal_type = "HOLD"
               /\ filtered_signal.value.strength = 0
               /\ filtered_signal.value.reasoning
                      = <<"Signal filtered out due to risk management rules">>
        /\ 5 * StrengthAfterSteps >= ONE =>
               /\ filtered_signal.value.signal_type = final_signal.value.signal_type
               /\ filtered_signal.value.strength = StrengthAfterSteps
               /\ 5 * filtered_signal.value.strength >= ONE
               /\ KeepsReasoning
        /\ (final_signal.value.signal_type = "HOLD" /\ final_signal.value.strength = 0)
               => 5 * StrengthAfterSteps < ONE
        /\ filtered_signal.value.signal_type = "HOLD"
               <=> filtered_signal.value.strength = 0

\* a BUY or SELL that the steps brought below 0.2 came back as HOLD
C23_Witness ==
    /\ Sized
    /\ final_signal.value.signal_type \in {"BUY", "SELL"}
    /\ 5 * StrengthAfterSteps < ONE
    /\ filtered_signal.value.signal_type = "HOLD"
    /\ filtered_signal.value.strength = 0

\* a BUY or SELL that the steps weakened and that stayed what it was
C23_WeakenedAndKept ==
    /\ Sized
    /\ final_signal.value.signal_type \in {"BUY", "SELL"}
    /\ StrengthAfterSteps < final_signal.value.strength
    /\ filtered_signal.value.signal_type = final_signal.value.signal_type
    /\ filtered_signal.value.strength = StrengthAfterSteps

-----------------------------------------------------------------------------
(* The reasoning when no indicator agrees.                                 *)

\* no vote of the five kinds is the signal type decided
NoKindAgrees ==
    \A k \in 1..Len(SignalKinds) :
        ~Votes(Fused, SignalKey(SignalKinds[k]), final_signal.value.signal_type)

\* C24 as stated: when no vote of rsi, macd, ma, bb and the prediction
\* equals the signal type decided, the reasoning has the 'Mixed signals'
\* clause, whether the volume confirms or not.
C24_MixedSignalsStated ==
    (Returned(final_signal) /\ NoKindAgrees) =>
        Contains(final_signal.value.reasoning, "Mixed signals suggest holding position")

\* what the code does: the clause is there exactly if the volume does not
\* confirm; with a confirming volume the only clause is that of the volume
C24_MixedUnlessVolumeConfirms ==
    (Returned(final_signal) /\ NoKindAgrees) =>
        /\ final_signal.value.signal_type = "HOLD"
        /\ ~Fused.volume_confirmation =>
               final_signal.value.reasoning
                   = <<"Weak", "HOLD", "Mixed signals suggest holding position">>
        /\ Fused.volume_confirmation =>
               final_signal.value.reasoning
                   = <<"Weak", "HOLD", "High volume confirms the signal">>

\* no kind agrees, and the clause is there
C24_MixedReached ==
    /\ Returned(final_signal) /\ NoKindAgrees
    /\ Contains(final_signal.value.reasoning, "Mixed signals suggest holding position")

\* no kind agrees, the volume confirms, and the clause is missing
C24_MixedMissing ==
    /\ Returned(final_signal) /\ NoKindAgrees
    /\ Fused.volume_confirmation
    /\ ~Contains(final_signal.value.reasoning, "Mixed signals suggest holding position")

-----------------------------------------------------------------------------
(* Decisions whose target and stop both come from the formulas.            *)

\* a BUY or SELL of a series with no level on either side went through
\* the risk filter
FallbackFiltered ==
    /\ Sized
    /\ final_signal.value.signal_type \in {"BUY", "SELL"}
    /\ final_signal.value.support_levels = <<>>
    /\ final_signal.value.resistance_levels = <<>>

\* C25: with neither a support nor a resistance level the ratio of a BUY
\* or SELL is (0.01 + 0.04 s) / (0.02 + 0.03 s), at most 1 and so below
\* 1.5: the risk filter halves the strength of every such decision, and
\* the decision comes back as BUY or SELL only if its strength after the
\* volatility step is at least 0.4.
C25_FallbackTargetsHalved ==
    FallbackFiltered =>
        /\ "risk_reward_ratio" \in DOMAIN filtered_signal.value
        /\ filtered_signal.value.risk_reward_ratio \in 0..100
        /\ RatioIsPoor
        /\ 5 * SizedStrength >= 2 * ONE =>
               /\ filtered_signal.value.signal_type = final_signal.value.signal_type
               /\ 2 * filtered_signal.value.strength = SizedStrength
               /\ Contains(filtered_signal.value.reasoning, "(Poor risk-reward ratio)")
        /\ 5 * SizedStrength < 2 * ONE =>
               /\ filtered_signal.value.signal_type = "HOLD"
               /\ filtered_signal.value.strength = 0

\* one such decision came back as it was, with half its strength
C25_Witness ==
    /\ FallbackFiltered
    /\ filtered_signal.value.signal_type = final_signal.value.signal_type
    /\ 2 * filtered_signal.value.strength = final_signal.value.strength

\* one of a strength between 0.3 and 0.4 came back as HOLD, and one of
\* strength 1 has the ratio 1.0
C25_VetoedBelowTwoFifths ==
    /\ FallbackFiltered
    /\ 5 * final_signal.value.strength < 2 * ONE
    /\ filtered_signal.value.signal_type = "HOLD"

C25_RatioOne ==
    /\ FallbackFiltered
    /\ final_signal.value.strength = ONE
    /\ filtered_signal.value.risk_reward_ratio = 100

-----------------------------------------------------------------------------
(* Target and stop on their sides of the current price.                    *)

\* a BUY or SELL made from a series handed over oldest first
DecidedInOrder ==
    /\ Returned(final_signal)
    /\ request.order = "asc"
    /\ final_signal.value.signal_type \in {"BUY", "SELL"}

\* every support level is below the current close and every resistance
\* level above it, before any rounding
LevelsOnTheirSides ==
    /\ \A i \in 1..Len(final_signal.value.support_levels) :
           QLess(final_signal.value.support_levels[i], QInt(CurrentClose))
    /\ \A i \in 1..Len(final_signal.value.resistance_levels) :
           QLess(QInt(CurrentClose), final_signal.value.resistance_levels[i])

\* potential gain and potential loss as lines 515-520 compute them from
\* the rounded target and stop
PotentialGain ==
    IF final_signal.value.signal_type = "BUY"
    THEN final_signal.value.price_target[1] - CurrentClose
    ELSE CurrentClose - final_signal.value.price_target[1]

PotentialLoss ==
    IF final_signal.value.signal_type = "BUY"
    THEN CurrentClose - final_signal.value.stop_loss[1]
    ELSE final_signal.value.stop_loss[1] - CurrentClose

C26_BuyWithRatio ==
    /\ DecidedInOrder /\ Sized
    /\ final_signal.value.signal_type = "BUY"
    /\ PotentialGain > 0 /\ PotentialLoss > 0
    /\ "risk_reward_ratio" \in DOMAIN filtered_signal.value

-----------------------------------------------------------------------------
(* The risk filter only weakens.                                           *)

-----------------------------------------------------------------------------
(* Series of equal closes.                                                 *)

\* at least 20 bars, all with the same close, and no prediction
FlatAnswered ==
    /\ Returned(final_signal)
    /\ ~ml_prediction.called
    /\ \A i \in 1..Len(market_data) : market_data[i].close_price = CurrentClose

\* the votes of RSI and Bollinger, the vote of MACD and the decision
FlatVotesAndDecision ==
    /\ final_signal.value.signal_type = "HOLD"
    /\ final_signal.value.strength = 0
    /\ Fused.rsi_signal = "HOLD" /\ Fused.rsi_strength = 0
    /\ Fused.bb_signal = "HOLD" /\ Fused.bb_strength = 0
    /\ Fused.macd_signal = "SELL" /\ Fused.macd_strength = ONE \div 2
    /\ ExpectedTotal("SELL") = ONE \div 8
    /\ final_signal.value.buy_strength = 0
    /\ final_signal.value.sell_strength <= (225 * ONE) \div 1000

\* C28 as stated: a series of at least 20 equal closes without a
\* prediction gives HOLD with strength 0 whatever the volumes are: RSI,
\* MA-cross and Bollinger vote HOLD, MACD votes SELL with strength 0.5
\* (0.125 weighted), and the sell total stays at or below 0.225.
C28_FlatHoldsAllVoting ==
    FlatAnswered =>
        /\ FlatVotesAndDecision
        /\ "ma_signal" \in DOMAIN Fused
        /\ Fused.ma_signal = "HOLD"

\* C28, amended: the same, with the MA-cross voting HOLD from 50 bars on
\* and casting no vote below 50 bars.
C28_FlatHolds ==
    FlatAnswered =>
        /\ FlatVotesAndDecision
        /\ Len(market_data) >= ma_long_window =>
               /\ "ma_signal" \in DOMAIN Fused
               /\ Fused.ma_signal = "HOLD" /\ Fused.ma_strength = 0
        /\ Len(market_data) < ma_long_window => "ma_signal" \notin DOMAIN Fused

\* equal closes with the largest boost: the sell total is 0.225, the
\* decision HOLD
C28_Witness ==
    /\ FlatAnswered
    /\ Fused.volume_confirmation /\ Fused.volume_strength = ONE
    /\ final_signal.value.sell_strength = (225 * ONE) \div 1000
    /\ final_signal.value.signal_type = "HOLD"

\* equal closes under 50 bars: no vote of the MA-cross
C28_NoMaVote ==
    /\ FlatAnswered
    /\ Len(market_data) < ma_long_window
    /\ "ma_signal" \notin DOMAIN Fused

-----------------------------------------------------------------------------
(* A prediction that does not pass the gate.                               *)

\* the decision made with the prediction and the one made without it agree
\* on everything the caller acts on
SameDecision ==
    /\ ~decision.raised
    /\ final_signal.value.signal_type = decision.value.signal_type
    /\ final_signal.value.strength = decision.value.strength
    /\ final_signal.value.price_target = decision.value.price_target
    /\ final_signal.value.stop_loss = decision.value.stop_loss
    /\ final_signal.value.reasoning = decision.value.reasoning

\* C29: a prediction with confidence <= 0.5 or predicted price <= 0 has no
\* influence: generate_signals returns the same signal_type, strength,
\* price_target, stop_loss and reasoning as without a prediction; the
\* trend fallback of generate_prediction (confidence 0.3) is such a
\* prediction.
C29_WeakPredictionNoInfluence ==
    (Returned(final_signal) /\ Supplied /\ decision.called) =>
        /\ ~Gated => SameDecision
        /\ ml_prediction.source = "engine" =>
               /\ ml_prediction.value.confidence_score = 300
               /\ SameDecision

\* a prediction with confidence 0.5 and a move of a third of the price,
\* and a BUY or SELL decision that is the same without it
C29_Witness ==
    /\ Returned(final_signal) /\ Supplied /\ decision.called
    /\ ml_prediction.source = "cache"
    /\ ml_prediction.value.confidence_score = 500
    /\ 100 * Abs(PredictedMove) > 2 * CurrentClose
    /\ final_signal.value.signal_type # "HOLD"
    /\ SameDecision

\* the trend fallback was handed to generate_signals and changed nothing
C29_FallbackIgnored ==
    /\ Returned(final_signal) /\ Supplied /\ decision.called
    /\ ml_prediction.source = "engine"
    /\ PredictedMove # 0
    /\ SameDecision

\* a prediction that passes the gate changes the decision
C29_StrongPredictionDecides ==
    /\ Returned(final_signal) /\ Supplied /\ decision.called
    /\ Gated
    /\ final_signal.value.signal_type # decision.value.signal_type

-----------------------------------------------------------------------------
(* The MA-cross under 50 bars.                                             *)

\* generate_signals answered for a series of 20 to 49 bars
ShortSeriesAnswered ==
    /\ Returned(final_signal)
    /\ Len(market_data) >= min_bars
    /\ Len(market_data) < ma_long_window

\* 0.20 + 0.25 + 0.15 + 0.10
ShortSeriesCeiling == ((20 + 25 + 15 + 10) * ONE) \div 100

\* C30: for a series of 20 to 49 bars the MA-cross casts no vote: it adds
\* 0 to buy_total and to sell_total and the reasoning has no
\* moving-average clause, whatever the prices; without a prediction no
\* total is above 0.20 + 0.25 + 0.15 + 0.10 = 0.70.
C30_NoMaVoteUnderFiftyBars ==
    ShortSeriesAnswered =>
        /\ "ma_signal" \notin DOMAIN Fused
        /\ "ma_strength" \notin DOMAIN Fused
        /\ Weighted(20, "ma", "BUY") = 0
        /\ Weighted(20, "ma", "SELL") = 0
        /\ ~Contains(final_signal.value.reasoning, "Moving averages support the trend")
        /\ PredictionArg = <<>> =>
               /\ final_signal.value.buy_strength <= ShortSeriesCeiling
               /\ final_signal.value.sell_strength <= ShortSeriesCeiling

\* 30 bars decided BUY or SELL without a prediction and without a vote of
\* the MA-cross
C30_Witness ==
    /\ ShortSeriesAnswered
    /\ PredictionArg = <<>>
    /\ Len(market_data) = 30
    /\ final_signal.value.signal_type # "HOLD"
    /\ "ma_signal" \notin DOMAIN Fused

\* from 50 bars on the MA-cross votes and its clause is in the reasoning
C30_MaVotesFromFiftyBars ==
    /\ Returned(final_signal)
    /\ Len(market_data) >= ma_long_window
    /\ "ma_signal" \in DOMAIN Fused
    /\ Contains(final_signal.value.reasoning, "Moving averages support the trend")

=============================================================================
